---- MODULE Spec2Model ----
(***************************************************************************)
(* Model of the family-hub recipe-import function                          *)
(* (netlify/functions/recipe-parser.js).  The file holds three successive  *)
(* versions of the function; `exports.handler` and every function          *)
(* declaration are bound to the LAST definition in the file, so the model  *)
(* follows the handler of lines 847-964 and the helpers of lines 966-1144. *)
(*                                                                         *)
(* Strings are sequences of one-character strings, so that prefix tests,   *)
(* replace, trim and join are computed and not assumed.  JSON values are   *)
(* tagged records [t, v].                                                  *)
(***************************************************************************)
EXTENDS Integers, Sequences, FiniteSets, TLC

VARIABLES
    event,       \* request -> the inbound event {httpMethod, body}
    upstream,    \* request -> how the origin server answers the page fetch
    pc,          \* request -> where the handler is suspended
    url,         \* request -> the handler's `let url`
    siteName,    \* request -> the handler's `const siteName` (try block)
    timer,       \* request -> state of the setTimeout(abort, 8000) timer
    fetchCount,  \* request -> number of fetch(url, ...) calls issued
    fetched,     \* request -> state of the promise fetch(url, ...) returned
    bodyParsed,  \* request -> whether JSON.parse(event.body) was evaluated
    log,         \* request -> console output of the invocation, in order
    response,    \* request -> the value the handler returned
    call,        \* the helper function applied on its own: [fn, arg]
    result,      \* the values the applications of `call` returned, in order
    calendar_sync_settings, \* the family's row of table calendar_sync_settings
    calendar_events,        \* the family's rows of table calendar_events
    sync,        \* the running syncGoogleCalendarEvents(familyId)
    disconnect,  \* the running disconnectGoogleCalendar(familyId)
    auth,        \* the running handleGoogleAuthCallback(code, familyId)
    meals,       \* the week numbers the family has rows for in table meals
    currentWeek,     \* MealPlan's state currentWeek
    availableWeeks,  \* MealPlan's state availableWeeks
    pending      \* MealPlan's asynchronous calls that have not finished

calendarVars ==
    << calendar_sync_settings, calendar_events, sync, disconnect, auth >>

mealVars == << meals, currentWeek, availableWeeks, pending >>

vars == << event, upstream, pc, url, siteName, timer, fetchCount, fetched,
           bodyParsed, log, response, call, result, calendarVars, mealVars >>

-----------------------------------------------------------------------------
(* String literals of the source, as character sequences.                  *)

\* "Unknown Site"
S_UnknownSite ==
    << "U","n","k","n","o","w","n"," ","S","i","t","e" >>

\* "Recipe from "
S_RecipeFrom ==
    << "R","e","c","i","p","e"," ","f","r","o","m"," " >>

\* "Recipe imported from "
S_RecipeImportedFrom ==
    << "R","e","c","i","p","e"," ","i","m","p","o","r","t","e","d"," ",
       "f","r","o","m"," " >>

\* "Please add ingredients manually"
S_AddIngredients ==
    << "P","l","e","a","s","e"," ","a","d","d"," ","i","n","g","r","e",
       "d","i","e","n","t","s"," ","m","a","n","u","a","l","l","y" >>

\* "Please add cooking instructions manually. Full recipe available at the linked URL."
S_AddInstructionsFull ==
    << "P","l","e","a","s","e"," ","a","d","d"," ","c","o","o","k","i",
       "n","g"," ","i","n","s","t","r","u","c","t","i","o","n","s"," ",
       "m","a","n","u","a","l","l","y","."," ","F","u","l","l"," ","r",
       "e","c","i","p","e"," ","a","v","a","i","l","a","b","l","e"," ",
       "a","t"," ","t","h","e"," ","l","i","n","k","e","d"," ","U","R",
       "L","." >>

\* "Please add ingredients manually (auto-extraction failed)"
S_AddIngredientsFailed ==
    << "P","l","e","a","s","e"," ","a","d","d"," ","i","n","g","r","e",
       "d","i","e","n","t","s"," ","m","a","n","u","a","l","l","y"," ",
       "(","a","u","t","o","-","e","x","t","r","a","c","t","i","o","n",
       " ","f","a","i","l","e","d",")" >>

\* "Please add cooking instructions manually"
S_AddInstructions ==
    << "P","l","e","a","s","e"," ","a","d","d"," ","c","o","o","k","i",
       "n","g"," ","i","n","s","t","r","u","c","t","i","o","n","s"," ",
       "m","a","n","u","a","l","l","y" >>

\* "Could not parse recipe automatically. Please add details manually."
S_CouldNotParse ==
    << "C","o","u","l","d"," ","n","o","t"," ","p","a","r","s","e"," ",
       "r","e","c","i","p","e"," ","a","u","t","o","m","a","t","i","c",
       "a","l","l","y","."," ","P","l","e","a","s","e"," ","a","d","d",
       " ","d","e","t","a","i","l","s"," ","m","a","n","u","a","l","l",
       "y","." >>

\* "www."
S_www ==
    << "w","w","w","." >>

\* "http://"
S_http ==
    << "h","t","t","p",":","/","/" >>

\* "https://"
S_https ==
    << "h","t","t","p","s",":","/","/" >>

\* "Recipe"
S_Recipe ==
    << "R","e","c","i","p","e" >>

\* "Article"
S_Article ==
    << "A","r","t","i","c","l","e" >>

\* "allrecipes.com"
S_allrecipes_com ==
    << "a","l","l","r","e","c","i","p","e","s",".","c","o","m" >>

\* "AllRecipes"
S_AllRecipes ==
    << "A","l","l","R","e","c","i","p","e","s" >>

\* "foodnetwork.com"
S_foodnetwork_com ==
    << "f","o","o","d","n","e","t","w","o","r","k",".","c","o","m" >>

\* "Food Network"
S_FoodNetwork ==
    << "F","o","o","d"," ","N","e","t","w","o","r","k" >>

\* "bonappetit.com"
S_bonappetit_com ==
    << "b","o","n","a","p","p","e","t","i","t",".","c","o","m" >>

\* "Bon Appetit"
S_BonAppetit ==
    << "B","o","n"," ","A","p","p","e","t","i","t" >>

\* "epicurious.com"
S_epicurious_com ==
    << "e","p","i","c","u","r","i","o","u","s",".","c","o","m" >>

\* "Epicurious"
S_Epicurious ==
    << "E","p","i","c","u","r","i","o","u","s" >>

\* "tasty.co"
S_tasty_co ==
    << "t","a","s","t","y",".","c","o" >>

\* "Tasty"
S_Tasty ==
    << "T","a","s","t","y" >>

\* "food.com"
S_food_com ==
    << "f","o","o","d",".","c","o","m" >>

\* "Food.com"
S_FoodCom ==
    << "F","o","o","d",".","c","o","m" >>

\* "&quot;"
S_quot ==
    << "&","q","u","o","t",";" >>

\* "&amp;"
S_amp ==
    << "&","a","m","p",";" >>

\* "[object Object]"
S_objectObject ==
    << "[","o","b","j","e","c","t"," ","O","b","j","e","c","t","]" >>

\* "http://www.a.co/r"
U_wwwA ==
    << "h","t","t","p",":","/","/","w","w","w",".","a",".","c","o","/",
       "r" >>

\* "https://tasty.co"
U_tasty ==
    << "h","t","t","p","s",":","/","/","t","a","s","t","y",".","c","o" >>

\* "a.co/r"
U_noScheme ==
    << "a",".","c","o","/","r" >>

\* "http://"
U_noHost ==
    << "h","t","t","p",":","/","/" >>

\* "undefined"
S_undefined ==
    << "u","n","d","e","f","i","n","e","d" >>

\* "null"
S_null ==
    << "n","u","l","l" >>

\* " hours "
S_hours ==
    << " ","h","o","u","r","s"," " >>

\* " minutes"
S_minutes ==
    << " ","m","i","n","u","t","e","s" >>

\* "PT"
S_PT ==
    << "P","T" >>

\* ". "
S_dotSpace ==
    << "."," " >>
-----------------------------------------------------------------------------
(* JSON / JavaScript values.                                               *)

Str(s) == [t |-> "str", v |-> s]
Num(n) == [t |-> "num", v |-> n]
Arr(a) == [t |-> "arr", v |-> a]
Undef == [t |-> "undef", v |-> <<>>]
Null == [t |-> "null", v |-> <<>>]

\* A JSON object carries every property the code reads; an absent property
\* reads as undefined.
ObjectKeys ==
    { "atType", "name", "description", "recipeIngredient", "recipeInstructions",
      "cookTime", "totalTime", "recipeYield", "yield", "author", "text" }

Obj(fields) ==
    [t |-> "obj",
     v |-> [k \in ObjectKeys |-> IF k \in DOMAIN fields THEN fields[k] ELSE Undef]]


\* JavaScript truthiness (`!x`, `x || y`, `x ? a : b`).
Truthy(x) ==
    CASE x.t = "str" -> Len(x.v) > 0
      [] x.t = "num" -> x.v # 0
      [] x.t \in {"undef", "null"} -> FALSE
      [] OTHER -> TRUE

\* JavaScript `a || b`.
OrElse(a, b) == IF Truthy(a) THEN a ELSE b

-----------------------------------------------------------------------------
(* String operations.                                                      *)

SetMin(S) == CHOOSE i \in S : \A j \in S : i <= j

HasPrefix(s, p) == Len(s) >= Len(p) /\ SubSeq(s, 1, Len(p)) = p

\* Index of the first occurrence of p in s, 0 when there is none.
IndexOf(s, p) ==
    LET hits == { i \in 1..(Len(s) - Len(p) + 1) : SubSeq(s, i, i + Len(p) - 1) = p }
    IN  IF hits = {} THEN 0 ELSE SetMin(hits)

\* String.prototype.replace with a string pattern: the first occurrence only.
ReplaceFirst(s, p, rep) ==
    LET i == IndexOf(s, p)
    IN  IF i = 0 THEN s
        ELSE SubSeq(s, 1, i - 1) \o rep \o SubSeq(s, i + Len(p), Len(s))

-----------------------------------------------------------------------------
(* new URL(url) and getSiteName.                                           *)

\* new URL(s) for the http/https strings the requests carry: a scheme
\* followed by a non-empty host that ends at the first "/", "?" or "#".
ParseURL(s) ==
    LET scheme == IF HasPrefix(s, S_https) THEN S_https
                  ELSE IF HasPrefix(s, S_http) THEN S_http ELSE <<>>
        rest == SubSeq(s, Len(scheme) + 1, Len(s))
        stops == { i \in 1..Len(rest) : rest[i] \in {"/", "?", "#"} }
        hostLen == IF stops = {} THEN Len(rest) ELSE SetMin(stops) - 1
    IN  IF scheme = <<>> \/ hostLen = 0
        THEN [ok |-> FALSE, hostname |-> <<>>]
        ELSE [ok |-> TRUE, hostname |-> SubSeq(rest, 1, hostLen)]

\* Mutant of NewURL: the constructor accepts every value.
NewURL_Lenient(x) ==
    IF x.t = "str" THEN [ParseURL(x.v) EXCEPT !.ok = TRUE]
    ELSE [ok |-> TRUE, hostname |-> <<>>]

\* new URL(x) for a JavaScript value: a non-string is converted to a string
\* that carries no scheme, so the constructor throws.
NewURL(x) ==
    IF x.t = "str" THEN ParseURL(x.v) ELSE [ok |-> FALSE, hostname |-> <<>>]

siteNames ==
    (S_allrecipes_com :> S_AllRecipes) @@ (S_foodnetwork_com :> S_FoodNetwork) @@
    (S_bonappetit_com :> S_BonAppetit) @@ (S_epicurious_com :> S_Epicurious) @@
    (S_tasty_co :> S_Tasty) @@ (S_food_com :> S_FoodCom)

\* Mutant of getSiteName: the table of friendly names is not consulted.
getSiteName_NoTable(x) ==
    LET u == NewURL(x)
    IN  IF ~u.ok THEN S_UnknownSite
        ELSE ReplaceFirst(u.hostname, S_www, <<>>)

getSiteName(x) ==
    LET u == NewURL(x)
        hostname == ReplaceFirst(u.hostname, S_www, <<>>)
    IN  IF ~u.ok THEN S_UnknownSite
        ELSE IF hostname \in DOMAIN siteNames THEN siteNames[hostname]
        ELSE hostname

-----------------------------------------------------------------------------
(* JavaScript string conversion and Array.prototype.join.                  *)

Digits == << "0", "1", "2", "3", "4", "5", "6", "7", "8", "9" >>

RECURSIVE NumToStr(_)
NumToStr(n) ==
    IF n < 10 THEN << Digits[n + 1] >>
    ELSE NumToStr(n \div 10) \o << Digits[(n % 10) + 1] >>

RECURSIVE ToStr(_)
RECURSIVE JoinFrom(_, _, _)

\* Array.prototype.join(sep): null and undefined elements give "", every
\* other element is converted with ToStr.
JoinFrom(a, i, sep) ==
    IF i > Len(a) THEN <<>>
    ELSE (IF i > 1 THEN sep ELSE <<>>)
         \o (IF a[i].t \in {"undef", "null"} THEN <<>> ELSE ToStr(a[i]))
         \o JoinFrom(a, i + 1, sep)

Join(a, sep) == JoinFrom(a, 1, sep)

\* String(x), as used by template literals and join.
ToStr(x) ==
    CASE x.t = "str" -> x.v
      [] x.t = "num" -> NumToStr(x.v)
      [] x.t = "undef" -> S_undefined
      [] x.t = "null" -> S_null
      [] x.t = "obj" -> S_objectObject
      [] x.t = "arr" -> Join(x.v, << "," >>)

Whitespace == { " ", "\n", "\t" }

RECURSIVE TrimLeft(_)
TrimLeft(s) ==
    IF Len(s) > 0 /\ s[1] \in Whitespace THEN TrimLeft(Tail(s)) ELSE s

RECURSIVE TrimRight(_)
TrimRight(s) ==
    IF Len(s) > 0 /\ s[Len(s)] \in Whitespace
    THEN TrimRight(SubSeq(s, 1, Len(s) - 1)) ELSE s

\* String.prototype.trim
Trim(s) == TrimRight(TrimLeft(s))

\* String.prototype.replace with a /.../g pattern of literal text: every
\* occurrence, left to right, the replacement text is not scanned again.
RECURSIVE ReplaceAll(_, _, _)
ReplaceAll(s, p, rep) ==
    LET i == IndexOf(s, p)
    IN  IF i = 0 THEN s
        ELSE SubSeq(s, 1, i - 1) \o rep
             \o ReplaceAll(SubSeq(s, i + Len(p), Len(s)), p, rep)

-----------------------------------------------------------------------------
(* Normalizers of the JSON-LD branch.  A result is [threw, v]: threw is    *)
(* TRUE when the JavaScript function raises a TypeError.                   *)

Ok(x) == [threw |-> FALSE, v |-> x]
Threw == [threw |-> TRUE, v |-> Undef]

extractIngredients(ingredients) ==
    IF ~Truthy(ingredients) \/ ingredients.t # "arr" THEN Str(<<>>)
    ELSE Str(Join(ingredients.v, << "\n" >>))

\* The `text` the map callback of extractInstructions computes for one entry.
\* Reading inst.text of null or undefined raises.
InstructionText(inst) ==
    CASE inst.t = "str" -> Ok(inst)
      [] inst.t \in {"undef", "null"} -> Threw
      [] inst.t = "obj" ->
            IF Truthy(inst.v.text) THEN Ok(inst.v.text)
            ELSE IF Truthy(inst.v.name) THEN Ok(inst.v.name)
            ELSE Ok(Str(<<>>))
      [] OTHER -> Ok(Str(<<>>))

\* The mapped, filtered list of numbered steps: entry i of the input carries
\* the number i (index + 1), whatever was filtered out before it.
RECURSIVE NumberedFrom(_, _)
NumberedFrom(a, i) ==
    IF i > Len(a) THEN <<>>
    ELSE LET text == InstructionText(a[i]).v
         IN  (IF Truthy(text)
              THEN << Str(NumToStr(i) \o S_dotSpace \o ToStr(text)) >>
              ELSE <<>>)
             \o NumberedFrom(a, i + 1)

\* Mutant of extractInstructions: the steps are joined by one newline.
extractInstructions_OneNewline(instructions) ==
    IF ~Truthy(instructions) \/ instructions.t # "arr" THEN Ok(Str(<<>>))
    ELSE IF \E i \in 1..Len(instructions.v) : InstructionText(instructions.v[i]).threw
         THEN Threw
    ELSE Ok(Str(Join(NumberedFrom(instructions.v, 1), << "\n" >>)))

extractInstructions(instructions) ==
    IF ~Truthy(instructions) \/ instructions.t # "arr" THEN Ok(Str(<<>>))
    ELSE IF \E i \in 1..Len(instructions.v) : InstructionText(instructions.v[i]).threw
         THEN Threw
    ELSE Ok(Str(Join(NumberedFrom(instructions.v, 1), << "\n", "\n" >>)))

IsDigit(c) == c \in { Digits[i] : i \in 1..10 }

\* The capture of /(\d+)X/ in s: the leftmost maximal run of digits that is
\* directly followed by the letter X; <<>> when there is no match.
DigitsBefore(s, X) ==
    LET starts == { i \in 1..Len(s) :
                      /\ IsDigit(s[i])
                      /\ \E j \in i..Len(s) :
                            /\ \A k \in i..j : IsDigit(s[k])
                            /\ j < Len(s) /\ s[j + 1] = X }
    IN  IF starts = {} THEN <<>>
        ELSE LET i == SetMin(starts)
                 j == SetMin({ k \in i..(Len(s) - 1) : ~IsDigit(s[k + 1]) })
             IN  SubSeq(s, i, j)

\* Mutant of formatTime: the result is not trimmed.
formatTime_NoTrim(timeString) ==
    IF ~Truthy(timeString) THEN Ok(Str(<<>>))
    ELSE IF timeString.t # "str" THEN Threw
    ELSE IF HasPrefix(timeString.v, S_PT)
         THEN LET hours == DigitsBefore(timeString.v, "H")
                  minutes == DigitsBefore(timeString.v, "M")
              IN  Ok(Str((IF hours # <<>> THEN hours \o S_hours ELSE <<>>)
                         \o (IF minutes # <<>> THEN minutes \o S_minutes ELSE <<>>)))
    ELSE Ok(timeString)

formatTime(timeString) ==
    IF ~Truthy(timeString) THEN Ok(Str(<<>>))
    ELSE IF timeString.t # "str" THEN Threw    \* timeString.match is not a function
    ELSE IF HasPrefix(timeString.v, S_PT)
         THEN LET hours == DigitsBefore(timeString.v, "H")
                  minutes == DigitsBefore(timeString.v, "M")
              IN  Ok(Str(Trim((IF hours # <<>> THEN hours \o S_hours ELSE <<>>)
                              \o (IF minutes # <<>> THEN minutes \o S_minutes ELSE <<>>))))
    ELSE Ok(timeString)

getAuthor(author) ==
    IF ~Truthy(author) THEN Str(<<>>)
    ELSE IF author.t = "str" THEN author
    ELSE IF author.t = "obj" /\ Truthy(author.v.name) THEN author.v.name
    ELSE Str(<<>>)

-----------------------------------------------------------------------------
(* The fetched page.  html carries what the regular expressions of the     *)
(* parser capture from it: the text of <title> and of the first <h1>, the  *)
(* content of the description metas (<<>> when the pattern does not        *)
(* match), and the application/ld+json script blocks in document order.    *)
(* A block is [malformed, data]: malformed when JSON.parse of its content  *)
(* throws, data the parsed value otherwise.                                *)

Page(title, blocks) ==
    [title |-> title, h1 |-> <<>>, metaDescription |-> <<>>,
     ogDescription |-> <<>>, blocks |-> blocks]

MalformedBlock == [malformed |-> TRUE, data |-> Undef]
Block(data) == [malformed |-> FALSE, data |-> data]

\* The record extractJSONLD builds from the matching item (lines 1042-1050);
\* threw when extractInstructions or formatTime raises.
MappedItem(item, instructions, cookTime) ==
        IF instructions.threw \/ cookTime.threw THEN Threw
        ELSE Ok([name |-> OrElse(item.name, Str(<<>>)),
                 description |-> OrElse(item.description, Str(<<>>)),
                 ingredients |-> extractIngredients(item.recipeIngredient),
                 instructions |-> instructions.v,
                 cookTime |-> OrElse(cookTime.v, Str(<<>>)),
                 servings |-> OrElse(OrElse(item.recipeYield, item.yield), Str(<<>>)),
                 author |-> OrElse(getAuthor(item.author), Str(<<>>))])

MapRecipeItem(item) ==
    MappedItem(item, extractInstructions(item.recipeInstructions),
               formatTime(OrElse(item.cookTime, item.totalTime)))

\* item['@type'] === 'Recipe'
IsRecipeItem(item) ==
    item.t = "obj" /\ item.v.atType.t = "str" /\ item.v.atType.v = S_Recipe

\* The `return {...}` of the loop body: it returns the record m, or raises.
Returned(m) ==
    IF m.threw THEN [kind |-> "threw", rec |-> Undef]
    ELSE [kind |-> "found", rec |-> m.v]

\* The inner `for (const item of items)` loop from item i on: "found" with
\* the record, "threw" when the loop body raises (reading a property of
\* null, or a normalizer raising), "none" when the loop ends.
RECURSIVE ScanItems(_, _)
ScanItems(items, i) ==
    IF i > Len(items) THEN [kind |-> "none", rec |-> Undef]
    ELSE IF items[i].t \in {"undef", "null"} THEN [kind |-> "threw", rec |-> Undef]
    ELSE IF IsRecipeItem(items[i]) THEN Returned(MapRecipeItem(items[i].v))
    ELSE ScanItems(items, i + 1)

\* The outer `for (const match of matches)` loop from block k on.
\* One iteration of the outer loop: JSON.parse of the block, then the
\* inner loop over `Array.isArray(data) ? data : [data]`.
ScanBlock(b) ==
    IF b.malformed THEN [kind |-> "threw", rec |-> Undef]
    ELSE ScanItems(IF b.data.t = "arr" THEN b.data.v ELSE << b.data >>, 1)

\* The inner catch logs and continues with the next block.
LogParseError(rest) == [rest EXCEPT !.log = << "JSON parse error:" >> \o @]

RECURSIVE ScanBlocks(_, _)

\* What the outer loop does once block k gave r.
AfterBlock(r, blocks, k) ==
    IF r.kind = "found" THEN [found |-> TRUE, rec |-> r.rec, log |-> <<>>]
    ELSE IF r.kind = "threw" THEN LogParseError(ScanBlocks(blocks, k + 1))
    ELSE ScanBlocks(blocks, k + 1)

\* The outer `for (const match of matches)` loop from block k on.
ScanBlocks(blocks, k) ==
    IF k > Len(blocks) THEN [found |-> FALSE, rec |-> Undef, log |-> <<>>]
    ELSE AfterBlock(ScanBlock(blocks[k]), blocks, k)

extractJSONLD(html) == ScanBlocks(html.blocks, 1)

\* Mutant of EntityClean: "&amp;" is replaced before "&quot;".
EntityClean_AmpFirst(s) ==
    ReplaceAll(ReplaceAll(Trim(s), S_amp, << "&" >>), S_quot, << "\"" >>)

EntityClean(s) ==
    ReplaceAll(ReplaceAll(Trim(s), S_quot, << "\"" >>), S_amp, << "&" >>)

\* The first pattern that matches decides, even when its text trims to "".
extractTitle(html) ==
    IF html.title # <<>> THEN EntityClean(html.title)
    ELSE IF html.h1 # <<>> THEN EntityClean(html.h1)
    ELSE <<>>

extractMetaDescription(html) ==
    IF Len(html.metaDescription) > 20 THEN Trim(html.metaDescription)
    ELSE IF Len(html.ogDescription) > 20 THEN Trim(html.ogDescription)
    ELSE <<>>

\* The generic author extractor (lines 757-773), which the handler in
\* effect does not call.  doc[i] is what $(selectors[i]).first() gives for
\* the i-th selector of its list: whether an element matches, and its text.
\* The first selector that matches decides, whatever its text.
RECURSIVE AuthorFrom(_, _)
AuthorFrom(doc, i) ==
    IF i > Len(doc) THEN <<>>
    ELSE IF doc[i].present THEN Trim(doc[i].text)
    ELSE AuthorFrom(doc, i + 1)

extractAuthorFromHTML(doc) == AuthorFrom(doc, 1)

\* parseRecipe returns [recipe, log].  Its catch branch (source
\* 'error-fallback') needs extractJSONLD, extractTitle or
\* extractMetaDescription to raise on a string, which none of them does.
ParsedRecipe(jsonLdData, html, site) ==
        IF jsonLdData.found
        THEN [recipe |-> [name |-> jsonLdData.rec.name,
                          description |-> jsonLdData.rec.description,
                          ingredients |-> jsonLdData.rec.ingredients,
                          instructions |-> jsonLdData.rec.instructions,
                          cookTime |-> jsonLdData.rec.cookTime,
                          servings |-> jsonLdData.rec.servings,
                          author |-> jsonLdData.rec.author,
                          siteName |-> Str(site),
                          source |-> "structured-data"],
              log |-> jsonLdData.log]
        ELSE [recipe |-> [name |-> OrElse(Str(extractTitle(html)),
                                          Str(S_RecipeFrom \o site)),
                          description |-> Str(extractMetaDescription(html)),
                          ingredients |-> Str(S_AddIngredientsFailed),
                          instructions |-> Str(S_AddInstructionsFull),
                          cookTime |-> Str(<<>>),
                          servings |-> Str(<<>>),
                          author |-> Str(<<>>),
                          siteName |-> Str(site),
                          source |-> "basic-html"],
              log |-> jsonLdData.log]

\* Mutant of parseRecipe: a call that follows another keeps the name the
\* earlier call found (a module-level cache).
parseRecipe_Remembers(html, u, site) ==
    IF result = <<>> THEN ParsedRecipe(extractJSONLD(html), html, site)
    ELSE [ParsedRecipe(extractJSONLD(html), html, site) EXCEPT
             !.recipe.name = Str(ToStr(@) \o << " ", "(", "2", ")" >>)]

parseRecipe(html, u, site) == ParsedRecipe(extractJSONLD(html), html, site)

-----------------------------------------------------------------------------
(* exports.handler (lines 847-964).                                        *)

NoRecipe ==
    [name |-> Undef, description |-> Undef, ingredients |-> Undef,
     instructions |-> Undef, cookTime |-> Undef, servings |-> Undef,
     author |-> Undef, siteName |-> Undef, source |-> ""]

\* What the handler returns: statusCode and the fields of the JSON body.
NoResponse ==
    [statusCode |-> 0, error |-> "", success |-> FALSE, source |-> "",
     recipe |-> NoRecipe, message |-> <<>>]

PreflightResponse == [NoResponse EXCEPT !.statusCode = 200]

MethodNotAllowedResponse ==
    [NoResponse EXCEPT !.statusCode = 405, !.error = "Method not allowed"]

UrlRequiredResponse ==
    [NoResponse EXCEPT !.statusCode = 400, !.error = "URL is required"]

\* Mutant of SuccessResponse: the envelope is always tagged as structured
\* data, whatever the record says.
SuccessResponse_FixedSource(recipeData) ==
    [NoResponse EXCEPT !.statusCode = 200, !.success = TRUE,
                       !.recipe = recipeData, !.source = "structured-data"]

SuccessResponse(recipeData) ==
    [NoResponse EXCEPT !.statusCode = 200, !.success = TRUE,
                       !.recipe = recipeData, !.source = recipeData.source]

\* Mutant of FallbackResponse: the ingredients placeholder of parseRecipe's
\* basic-HTML record is used in the catch block.
FallbackResponse_OtherPlaceholder(u) ==
    LET site == IF Truthy(u) THEN getSiteName(u) ELSE S_UnknownSite
    IN  [NoResponse EXCEPT
            !.statusCode = 200,
            !.success = TRUE,
            !.recipe = [name |-> Str(S_RecipeFrom \o site),
                        description |-> Str(S_RecipeImportedFrom \o site),
                        ingredients |-> Str(S_AddIngredientsFailed),
                        instructions |-> Str(S_AddInstructionsFull),
                        cookTime |-> Str(<<>>),
                        servings |-> Str(<<>>),
                        author |-> Str(<<>>),
                        siteName |-> Str(site),
                        source |-> "fallback"],
            !.source = "fallback",
            !.message = S_CouldNotParse]

\* The catch block of the handler (lines 933-963); u is `url` as it stands
\* when the exception arrives.
FallbackResponse(u) ==
    LET site == IF Truthy(u) THEN getSiteName(u) ELSE S_UnknownSite
    IN  [NoResponse EXCEPT
            !.statusCode = 200,
            !.success = TRUE,
            !.recipe = [name |-> Str(S_RecipeFrom \o site),
                        description |-> Str(S_RecipeImportedFrom \o site),
                        ingredients |-> Str(S_AddIngredients),
                        instructions |-> Str(S_AddInstructionsFull),
                        cookTime |-> Str(<<>>),
                        servings |-> Str(<<>>),
                        author |-> Str(<<>>),
                        siteName |-> Str(site),
                        source |-> "fallback"],
            !.source = "fallback",
            !.message = S_CouldNotParse]

\* Mutant of ParseBody: a body that cannot be read counts as {}.
ParseBody_DefaultsToEmpty(body) ==
    IF body.k = "object" THEN Ok(body.url) ELSE Ok(Undef)

\* JSON.parse(event.body || '{}') followed by body.url: [threw, url].
\* An absent or empty body parses as {}; a body that is not JSON makes
\* JSON.parse throw; the JSON text `null` makes reading body.url throw.
ParseBody(body) ==
    CASE body.k = "absent" -> Ok(Undef)
      [] body.k = "malformed" -> Threw
      [] body.k = "null" -> Threw
      [] body.k = "object" -> Ok(body.url)

\* Mutant of MethodAllowed: only GET is turned away.
MethodAllowed_AllButGet(m) == m # "GET"

\* event.httpMethod !== 'POST' answers 405 (line 861).
MethodAllowed(m) == m = "POST"

\* The handler from its entry to its first await (lines 847-902): the state
\* it leaves behind, body being the outcome of parsing the request body.
Dispatch(ev, body) ==
    LET stopped == [pc |-> "done", url |-> Undef, siteName |-> <<>>,
                    timer |-> "unset", fetches |-> 0, fetched |-> "none",
                    parsed |-> FALSE,
                    log |-> << "Recipe parser called:" >>,
                    response |-> NoResponse]
    IN  IF ev.httpMethod = "OPTIONS"
        THEN [stopped EXCEPT !.response = PreflightResponse]
        ELSE IF ~MethodAllowed(ev.httpMethod)
        THEN [stopped EXCEPT !.response = MethodNotAllowedResponse]
        ELSE IF body.threw
        THEN [stopped EXCEPT !.parsed = TRUE,
                             !.log = @ \o << "Recipe parser error:" >>,
                             !.response = FallbackResponse(Undef)]
        ELSE IF ~Truthy(body.v)
        THEN [stopped EXCEPT !.parsed = TRUE, !.url = body.v,
                             !.response = UrlRequiredResponse]
        ELSE IF ~NewURL(body.v).ok
        THEN [stopped EXCEPT !.parsed = TRUE, !.url = body.v,
                             !.log = @ \o << "Parsing recipe from:",
                                             "Recipe parser error:" >>,
                             !.response = FallbackResponse(body.v)]
        ELSE [stopped EXCEPT !.pc = "fetching", !.parsed = TRUE, !.url = body.v,
                             !.siteName = getSiteName(body.v),
                             !.timer = "armed", !.fetches = 1,
                             !.fetched = "pending",
                             !.log = @ \o << "Parsing recipe from:", "Site name:",
                                             "Fetching webpage..." >>]

HandlerStart(ev) == Dispatch(ev, ParseBody(ev.body))

\* The invocation of request r takes the state s.
Becomes(r, s) ==
    /\ pc' = [pc EXCEPT ![r] = s.pc]
    /\ url' = [url EXCEPT ![r] = s.url]
    /\ siteName' = [siteName EXCEPT ![r] = s.siteName]
    /\ timer' = [timer EXCEPT ![r] = s.timer]
    /\ fetchCount' = [fetchCount EXCEPT ![r] = @ + s.fetches]
    /\ fetched' = [fetched EXCEPT ![r] = s.fetched]
    /\ bodyParsed' = [bodyParsed EXCEPT ![r] = s.parsed]
    /\ log' = [log EXCEPT ![r] = @ \o s.log]
    /\ response' = [response EXCEPT ![r] = s.response]

Start(r) ==
    /\ r \in DOMAIN pc
    /\ pc[r] = "start"
    /\ \E s \in { HandlerStart(event[r]) } : Becomes(r, s)
    /\ UNCHANGED << calendarVars, mealVars, call, result, event, upstream >>

\* Mutant of Caught: the catch block answers 500, as the first version of
\* the handler in the same file does.
Caught_ServerError(r) ==
    /\ pc' = [pc EXCEPT ![r] = "done"]
    /\ response' = [response EXCEPT ![r] =
                        [NoResponse EXCEPT !.statusCode = 500,
                                           !.error = "Internal server error"]]

\* An exception reaches the handler's catch block: the fallback is returned.
Caught(r) ==
    /\ pc' = [pc EXCEPT ![r] = "done"]
    /\ response' = [response EXCEPT ![r] = FallbackResponse(url[r])]

\* response.ok
StatusOk(status) == status >= 200 /\ status <= 299

\* `await fetch(...)` resolves with the response headers (lines 895-909):
\* the timer is cleared, a status outside 2xx is thrown.
FetchResolve(r) ==
    /\ r \in DOMAIN pc
    /\ pc[r] = "fetching"
    /\ upstream[r].headers = "status"
    /\ fetched' = [fetched EXCEPT ![r] = "resolved"]
    /\ timer' = [timer EXCEPT ![r] = "cleared"]
    /\ IF StatusOk(upstream[r].status)
       THEN /\ pc' = [pc EXCEPT ![r] = "reading"]
            /\ log' = [log EXCEPT ![r] = @ \o << "Fetch response status:" >>]
            /\ UNCHANGED response
       ELSE /\ Caught(r)
            /\ log' = [log EXCEPT ![r] = @ \o << "Fetch response status:",
                                                 "Recipe parser error:" >>]
    /\ UNCHANGED << calendarVars, mealVars, call, result, event, upstream, url, siteName, fetchCount, bodyParsed >>

\* Mutant of FetchReject: a rejected fetch is issued again.
FetchReject_Retry(r) ==
    /\ r \in DOMAIN pc
    /\ pc[r] = "fetching"
    /\ upstream[r].headers = "error"
    /\ fetchCount[r] < 3
    /\ fetchCount' = [fetchCount EXCEPT ![r] = @ + 1]
    /\ UNCHANGED << calendarVars, mealVars, call, result, event, upstream, pc, url, siteName, timer, fetched,
                    bodyParsed, log, response >>

\* `await fetch(...)` rejects (DNS, connection, TLS ...): clearTimeout is
\* skipped, so the timer stays armed.
FetchReject(r) ==
    /\ r \in DOMAIN pc
    /\ pc[r] = "fetching"
    /\ upstream[r].headers = "error"
    /\ fetched' = [fetched EXCEPT ![r] = "rejected"]
    /\ Caught(r)
    /\ log' = [log EXCEPT ![r] = @ \o << "Recipe parser error:" >>]
    /\ UNCHANGED << calendarVars, mealVars, call, result, event, upstream, url, siteName, timer, fetchCount, bodyParsed >>

\* The 8 second timer fires: controller.abort().  While the fetch is
\* pending it rejects with AbortError; after the handler returned the abort
\* has no effect.
TimerFire(r) ==
    /\ r \in DOMAIN pc
    /\ timer[r] = "armed"
    /\ timer' = [timer EXCEPT ![r] = "fired"]
    /\ IF pc[r] = "fetching"
       THEN /\ fetched' = [fetched EXCEPT ![r] = "aborted"]
            /\ Caught(r)
            /\ log' = [log EXCEPT ![r] = @ \o << "Recipe parser error:" >>]
       ELSE UNCHANGED << pc, response, log, fetched >>
    /\ UNCHANGED << calendarVars, mealVars, call, result, event, upstream, url, siteName, fetchCount, bodyParsed >>

\* The success envelope is returned for the parse result p.
Parsed(r, p) ==
    /\ response' = [response EXCEPT ![r] = SuccessResponse(p.recipe)]
    /\ log' = [log EXCEPT ![r] = @ \o << "HTML length:" >> \o p.log
                                   \o << "Parsed recipe:" >>]

\* `await response.text()` resolves (lines 911-931).
BodyResolve(r) ==
    /\ r \in DOMAIN pc
    /\ pc[r] = "reading"
    /\ upstream[r].body = "ok"
    /\ \E p \in { parseRecipe(upstream[r].html, url[r], siteName[r]) } : Parsed(r, p)
    /\ pc' = [pc EXCEPT ![r] = "done"]
    /\ UNCHANGED << calendarVars, mealVars, call, result, event, upstream, url, siteName, timer, fetchCount, fetched,
                    bodyParsed >>

\* `await response.text()` rejects (the connection breaks mid-body).
BodyReject(r) ==
    /\ r \in DOMAIN pc
    /\ pc[r] = "reading"
    /\ upstream[r].body = "error"
    /\ Caught(r)
    /\ log' = [log EXCEPT ![r] = @ \o << "Recipe parser error:" >>]
    /\ UNCHANGED << calendarVars, mealVars, call, result, event, upstream, url, siteName, timer, fetchCount, fetched,
                    bodyParsed >>

-----------------------------------------------------------------------------
(* Inputs: the inbound events and the answers of the origin server.        *)

MaxEntries == 2    \* JSON-LD items plus malformed blocks on one page
MaxTokens == 3     \* pieces of a title given to extractTitle
MaxSteps == 3      \* entries of a list given to extractInstructions / extractIngredients

Methods == { "OPTIONS", "POST", "GET", "DELETE" }

ValidUrls == { Str(U_wwwA), Str(U_tasty) }

UrlValues ==
    { Undef, Null, Str(<<>>), Num(0), Num(5), Str(U_noScheme), Str(U_noHost) }
    \cup ValidUrls

Bodies ==
    { [k |-> kind, url |-> Undef] : kind \in { "absent", "malformed", "null" } }
    \cup { [k |-> "object", url |-> u] : u \in UrlValues }

Events == { [httpMethod |-> m, body |-> b] : m \in Methods, b \in Bodies }

\* Sequences over S of length n.
RECURSIVE SeqsOfLen(_, _)
SeqsOfLen(S, n) ==
    IF n = 0 THEN { <<>> }
    ELSE { << x >> \o s : x \in S, s \in SeqsOfLen(S, n - 1) }

\* recipeIngredient / recipeInstructions arrays of strings.
StepLists == { <<>>, << Str(<< "x" >>) >>, << Str(<< "x" >>), Str(<< "y" >>) >> }

TypeValues ==
    { Str(S_Recipe), Str(S_Article), Arr(<< Str(S_Article), Str(S_Recipe) >>) }

\* JSON-LD objects: every @type with two names; every step list as both
\* recipeIngredient and recipeInstructions; a string and a numeric cookTime;
\* a numeric recipeYield.
Items ==
    { Obj([atType |-> ty, name |-> Str(<< nm >>),
           recipeIngredient |-> Arr(<< Str(<< "x" >>) >>),
           recipeInstructions |-> Arr(<< Str(<< "y" >>) >>)]) :
        ty \in TypeValues, nm \in { "A", "B" } }
    \cup { Obj([atType |-> Str(S_Recipe), name |-> Str(<< "C" >>),
                recipeIngredient |-> Arr(l), recipeInstructions |-> Arr(l)]) :
             l \in StepLists }
    \cup { Obj([atType |-> Str(S_Recipe), name |-> Str(<< "D" >>), cookTime |-> ct]) :
             ct \in { Str(<< "P", "T", "1", "H" >>), Num(30) } }
    \cup { Obj([atType |-> Str(S_Recipe), name |-> Str(<< "E" >>),
                recipeYield |-> Num(4)]) }

\* Blocks holding exactly w entries: a malformed block or a single object
\* (w = 1), or an array of w >= 2 objects.
BlocksOfWeight(w) ==
    IF w = 1 THEN { MalformedBlock } \cup { Block(i) : i \in Items }
    ELSE { Block(Arr(s)) : s \in SeqsOfLen(Items, w) }

\* Sequences of blocks holding at most n entries in all.
RECURSIVE BlockSeqs(_)
BlockSeqs(n) ==
    { <<>> } \cup
    UNION { { << b >> \o rest : b \in BlocksOfWeight(w), rest \in BlockSeqs(n - w) } :
              w \in 1..n }

EmptyPage == Page(<<>>, <<>>)

Pages == { EmptyPage } \cup { Page(<< "T" >>, bs) : bs \in BlockSeqs(MaxEntries) }

\* The origin server: whether and how the response headers arrive, and,
\* after a 2xx status, whether and how the body arrives.
NoUpstream == [headers |-> "never", status |-> 0, body |-> "never", html |-> EmptyPage]

\* The answers of an origin that serves one of the pages P.
Upstreams(P) ==
    { [NoUpstream EXCEPT !.headers = h] : h \in { "never", "error" } }
    \cup { [NoUpstream EXCEPT !.headers = "status", !.status = s] : s \in { 404, 500 } }
    \cup { [NoUpstream EXCEPT !.headers = "status", !.status = 200, !.body = b] :
             b \in { "never", "error" } }
    \cup { [NoUpstream EXCEPT !.headers = "status", !.status = 200, !.body = "ok",
                              !.html = p] : p \in P }

\* A request whose url the URL constructor accepts.
PostsParseableUrl(ev) ==
    /\ ev.httpMethod = "POST"
    /\ ev.body.k = "object"
    /\ ev.body.url.t = "str"
    /\ ParseURL(ev.body.url.v).ok

\* A request and the origin's answer to it.  A request that carries no
\* parseable url has no origin to talk to.  The page is parsed without
\* reference to the url (siteName is copied into the record), so the pages
\* are explored behind one url and the other url is served the empty page.
Inputs ==
    { [event |-> e, upstream |-> NoUpstream] : e \in { x \in Events : ~PostsParseableUrl(x) } }
    \cup { [event |-> e, upstream |-> u] :
             e \in { x \in Events : PostsParseableUrl(x) /\ x.body.url = Str(U_wwwA) },
             u \in Upstreams(Pages) }
    \cup { [event |-> e, upstream |-> u] :
             e \in { x \in Events : PostsParseableUrl(x) /\ x.body.url # Str(U_wwwA) },
             u \in Upstreams({ EmptyPage }) }

\* JavaScript's null, where a column or a property holds a string otherwise.
null == "null"

\* The row initializeCalendarSyncSettings inserts (supabase.js lines
\* 174-181), and before that the absence of the row.
NewSettings ==
    [exists |-> TRUE, google_calendar_enabled |-> FALSE,
     google_access_token |-> null, google_refresh_token |-> null]

NoSettings == [NewSettings EXCEPT !.exists = FALSE]

NoTokens == [access_token |-> null, refresh_token |-> null]

\* The local variables of a syncGoogleCalendarEvents call before its first
\* statement, with the number of refreshGoogleToken calls and of recursive
\* calls the outermost call has made so far.
FreshSync(refreshes, retries) ==
    [pc |-> "initialize",
     syncSettings |-> [google_access_token |-> null, google_refresh_token |-> null],
     tokens |-> NoTokens,
     totalFound |-> 0, familyHubEvents |-> <<>>,
     insertedCount |-> 0, errorCount |-> 0,
     refreshes |-> refreshes, retries |-> retries,
     success |-> FALSE, thrown |-> ""]

\* No function of the calendar integration is running.
CalendarIdle ==
    /\ calendar_sync_settings = NoSettings
    /\ calendar_events = <<>>
    /\ sync = [FreshSync(0, 0) EXCEPT !.pc = "off"]
    /\ disconnect = [pc |-> "off", thrown |-> ""]
    /\ auth = [pc |-> "off", tokens |-> NoTokens, thrown |-> "",
               sinceDisconnect |-> FALSE]

NoWeekCall == [active |-> FALSE, week |-> 0, availableWeeks |-> <<>>, currentWeek |-> 0]

\* The MealPlan component is not mounted.
MealIdle ==
    /\ meals = {}
    /\ currentWeek = 1
    /\ availableWeeks = <<>>
    /\ pending = [loads |-> 0, loading |-> TRUE,
                  deleteWeek |-> NoWeekCall, duplicateWeek |-> NoWeekCall]

\* No helper function is applied on its own.
NoCall == [fn |-> "none", arg |-> Undef]

\* The requests R are about to be handled, each drawn from I.
HandlerInit(R, I) ==
    /\ \E in \in [R -> I] :
          /\ event = [r \in R |-> in[r].event]
          /\ upstream = [r \in R |-> in[r].upstream]
    /\ pc = [r \in R |-> "start"]
    /\ url = [r \in R |-> Undef]
    /\ siteName = [r \in R |-> <<>>]
    /\ timer = [r \in R |-> "unset"]
    /\ fetchCount = [r \in R |-> 0]
    /\ fetched = [r \in R |-> "none"]
    /\ bodyParsed = [r \in R |-> FALSE]
    /\ log = [r \in R |-> <<>>]
    /\ response = [r \in R |-> NoResponse]

InitOf(R, I) ==
    /\ HandlerInit(R, I)
    /\ call = NoCall
    /\ result = <<>>
    /\ CalendarIdle
    /\ MealIdle

InitFor(R) == InitOf(R, Inputs)

\* One invocation of the function.
Init == InitFor({ "r1" })

\* The invocations any specification runs; the actions of a request that a
\* behaviour does not hold are disabled.
Requests == { "r1", "r2" }

Next ==
    \E r \in Requests :
        \/ Start(r)
        \/ FetchResolve(r)
        \/ FetchReject(r)
        \/ TimerFire(r)
        \/ BodyResolve(r)
        \/ BodyReject(r)

Spec == Init /\ [][Next]_vars

\* Whether the handler returns does not depend on what the page holds (the
\* parse is a total function of the text): the requests whose origin serves
\* the empty page.
PlainInputs == { in \in Inputs : in.upstream.html = EmptyPage }

InitPlain == InitOf({ "r1" }, PlainInputs)

\* The event loop runs every callback that is ready: a settled promise
\* resumes the handler and an armed timer fires.  Nothing makes the origin
\* server answer.
FairSpec == InitPlain /\ [][Next]_vars /\ WF_vars(Next)

\* Two import requests handled by the same process at the same time: the
\* steps of the two invocations interleave in every order.
ImportInputs == { in \in PlainInputs : PostsParseableUrl(in.event) }

InitPair == InitOf({ "r1", "r2" }, ImportInputs)

PairSpec == InitPair /\ [][Next]_vars

-----------------------------------------------------------------------------
(* The helper functions applied on their own: `call` names the function    *)
(* and its argument, every application appends the value it returned to    *)
(* `result`.  No request is being handled.                                 *)

\* ISO-8601 durations "PT{h}H{m}M{s}S", each component present or absent.
IsoDuration(h, m, s) ==
    S_PT \o (IF h # <<>> THEN h \o << "H" >> ELSE <<>>)
         \o (IF m # <<>> THEN m \o << "M" >> ELSE <<>>)
         \o (IF s # <<>> THEN s \o << "S" >> ELSE <<>>)

IsoDurations ==
    { [text |-> IsoDuration(h, m, s), hours |-> h, minutes |-> m] :
        h \in { <<>>, << "1" >>, << "1", "2" >> },
        m \in { <<>>, << "5" >>, << "3", "0" >>, << "4", "5" >> },
        s \in { <<>>, << "9" >> } }

\* Time texts that do not begin with "PT".
PlainTimes ==
    { <<>>, << "3","0"," ","m","i","n" >>, << "1"," ","h","o","u","r" >>, << "n","o","t","-","i","s","o" >>, << "P","1","D","T","2","H" >>, << " ","P","T","5","M" >> }

FormatTimeCalls ==
    { [fn |-> "formatTime", arg |-> Str(d.text)] : d \in IsoDurations }
    \cup { [fn |-> "formatTime", arg |-> Str(s)] : s \in PlainTimes }

\* Entries of a recipeInstructions list: strings, HowToStep objects with a
\* text or a name, and entries that give no text.
StepEntries ==
    { Str(<< "a" >>), Str(<< "b", " ", "b" >>), Str(<<>>),
      Obj([text |-> Str(<< "c" >>)]), Obj([name |-> Str(<< "d" >>)]),
      Obj([text |-> Str(<<>>)]) }

StepArrays == UNION { SeqsOfLen(StepEntries, n) : n \in 0..MaxSteps }

InstructionsCalls ==
    { [fn |-> "extractInstructions", arg |-> Arr(a)] : a \in StepArrays }

\* Arguments of getSiteName that parse as a URL, each with the host the URL
\* constructor reports for it.
ParseableSites ==
    { [arg |-> Str(<< "h","t","t","p",":","/","/","w","w","w",".","a",".","c","o","/","r" >>),
       host |-> << "w","w","w",".","a",".","c","o" >>],
      [arg |-> Str(<< "h","t","t","p","s",":","/","/","t","a","s","t","y",".","c","o" >>),
       host |-> << "t","a","s","t","y",".","c","o" >>],
      [arg |-> Str(<< "h","t","t","p","s",":","/","/","w","w","w",".","t","a","s","t","y",".","c","o","/","x" >>),
       host |-> << "w","w","w",".","t","a","s","t","y",".","c","o" >>],
      [arg |-> Str(<< "h","t","t","p","s",":","/","/","w","w","w",".","a","l","l","r","e","c","i","p","e","s",".","c","o","m","/","r","e","c","i","p","e","/","1","2","3" >>),
       host |-> << "w","w","w",".","a","l","l","r","e","c","i","p","e","s",".","c","o","m" >>],
      [arg |-> Str(<< "h","t","t","p","s",":","/","/","f","o","o","d",".","c","o","m" >>),
       host |-> << "f","o","o","d",".","c","o","m" >>],
      [arg |-> Str(<< "h","t","t","p",":","/","/","b",".","c","o","?","x" >>),
       host |-> << "b",".","c","o" >>],
      [arg |-> Str(<< "h","t","t","p","s",":","/","/","s","h","o","p",".","w","w","w",".","a",".","c","o","/" >>),
       host |-> << "s","h","o","p",".","w","w","w",".","a",".","c","o" >>] }

\* Arguments of getSiteName that the URL constructor rejects.
UnparseableSites ==
    { Str(<< "a",".","c","o","/","r" >>),
      Str(<< "h","t","t","p",":","/","/" >>),
      Str(<<>>),
      Str(<< "n","o","t"," ","a"," ","u","r","l" >>),
      Num(5), Undef, Null }

SiteNameCalls ==
    { [fn |-> "getSiteName", arg |-> s.arg] : s \in ParseableSites }
    \cup { [fn |-> "getSiteName", arg |-> x] : x \in UnparseableSites }

\* parseRecipe(html, url, siteName) for every page.
ParseRecipeCalls ==
    { [fn |-> "parseRecipe",
       arg |-> [html |-> h, url |-> Str(U_wwwA), siteName |-> << "a", ".", "c", "o" >>]] :
        h \in Pages }

\* author values of a JSON-LD recipe: a string, a Person object, arrays of
\* these, and values that hold no name.
AuthorValues ==
    { Str(<< "A", "n", "n" >>), Obj([name |-> Str(<< "B", "o", "b" >>)]),
      Arr(<< Str(<< "A", "n", "n" >>) >>),
      Arr(<< Obj([name |-> Str(<< "B", "o", "b" >>)]), Str(<< "A", "n", "n" >>) >>),
      Arr(<<>>), Obj([name |-> Undef]), Str(<<>>), Undef, Null }

AuthorCalls == { [fn |-> "getAuthor", arg |-> a] : a \in AuthorValues }

\* Entries of a recipeIngredient list: strings and objects with a text.
IngredientEntries ==
    { Str(<< "x" >>), Str(<< "y", " ", "y" >>),
      Obj([text |-> Str(<< "z" >>)]), Obj([text |-> Str(<< "w" >>)]) }

IngredientArrays == UNION { SeqsOfLen(IngredientEntries, n) : n \in 0..MaxSteps }

IngredientsCalls ==
    { [fn |-> "extractIngredients", arg |-> Arr(a)] : a \in IngredientArrays }

\* Pieces of a title: a letter, a space, the two entities, and the tails
\* "quot;" and "amp;" that follow the "&amp;" of a doubly escaped entity.
TitleTokens ==
    { << "a" >>, << " " >>, S_quot, S_amp,
      << "q", "u", "o", "t", ";" >>, << "a", "m", "p", ";" >> }

RECURSIVE Concat(_)
Concat(ss) == IF ss = <<>> THEN <<>> ELSE Head(ss) \o Concat(Tail(ss))

\* Titles of one to MaxTokens pieces.
Titles == { Concat(ss) : ss \in UNION { SeqsOfLen(TitleTokens, n) : n \in 1..MaxTokens } }

\* Pages for extractTitle: every title without an <h1>, and every
\* combination of an absent, blank or plain <title> with an absent, blank
\* or plain <h1>.
TitlePages ==
    { Page(ti, <<>>) : ti \in Titles }
    \cup { [Page(ti, <<>>) EXCEPT !.h1 = h] :
             ti \in { <<>>, << " " >>, << "T" >> },
             h \in { <<>>, << " " >>, << "S", "o", "u", "p" >> } }

TitleCalls == { [fn |-> "extractTitle", arg |-> h] : h \in TitlePages }

\* What one selector of the author extractor finds.
AuthorElements ==
    { [present |-> FALSE, text |-> <<>>], [present |-> TRUE, text |-> <<>>],
      [present |-> TRUE, text |-> << "A", "l" >>],
      [present |-> TRUE, text |-> << " ", "B", "o" >>] }

\* '[itemprop="author"]', '.recipe-author', '.author-name', '.by-author'
AuthorSelectors == 4

AuthorDocs == SeqsOfLen(AuthorElements, AuthorSelectors)

AuthorHtmlCalls == { [fn |-> "extractAuthorFromHTML", arg |-> d] : d \in AuthorDocs }

\* No request is handled; one helper is about to be applied.
InitHelpers ==
    /\ HandlerInit({}, Inputs)
    /\ CalendarIdle
    /\ MealIdle
    /\ result = <<>>
    /\ \/ call \in FormatTimeCalls
       \/ call \in InstructionsCalls
       \/ call \in SiteNameCalls
       \/ call \in ParseRecipeCalls
       \/ call \in AuthorCalls
       \/ call \in IngredientsCalls
       \/ call \in TitleCalls
       \/ call \in AuthorHtmlCalls

handlerVars ==
    << event, upstream, pc, url, siteName, timer, fetchCount, fetched,
       bodyParsed, log, response >>

\* The value v is returned to the caller of the helper.
Returns(v) ==
    /\ result' = Append(result, v)
    /\ UNCHANGED << call, handlerVars, calendarVars, mealVars >>

ApplyFormatTime ==
    /\ call.fn = "formatTime" /\ result = <<>>
    /\ Returns(formatTime(call.arg))

ApplyExtractInstructions ==
    /\ call.fn = "extractInstructions" /\ result = <<>>
    /\ Returns(extractInstructions(call.arg))

ApplyGetSiteName ==
    /\ call.fn = "getSiteName" /\ result = <<>>
    /\ Returns(getSiteName(call.arg))

\* parseRecipe is run, and then run again on the same arguments.
ApplyParseRecipe ==
    /\ call.fn = "parseRecipe" /\ Len(result) < 2
    /\ \E p \in { parseRecipe(call.arg.html, call.arg.url, call.arg.siteName) } :
          Returns(p.recipe)

ApplyGetAuthor ==
    /\ call.fn = "getAuthor" /\ result = <<>>
    /\ Returns(getAuthor(call.arg))

ApplyExtractIngredients ==
    /\ call.fn = "extractIngredients" /\ result = <<>>
    /\ Returns(extractIngredients(call.arg))

ApplyExtractTitle ==
    /\ call.fn = "extractTitle" /\ result = <<>>
    /\ Returns(extractTitle(call.arg))

ApplyExtractAuthorFromHTML ==
    /\ call.fn = "extractAuthorFromHTML" /\ result = <<>>
    /\ Returns(extractAuthorFromHTML(call.arg))

NextHelpers ==
    \/ ApplyFormatTime
    \/ ApplyExtractInstructions
    \/ ApplyGetSiteName
    \/ ApplyParseRecipe
    \/ ApplyGetAuthor
    \/ ApplyExtractIngredients
    \/ ApplyExtractTitle
    \/ ApplyExtractAuthorFromHTML

HelperSpec == InitHelpers /\ [][NextHelpers]_vars

-----------------------------------------------------------------------------
(* The Google Calendar integration of src/src/supabase.js.  One family; the *)
(* three exported functions run in the browser and interleave at their      *)
(* awaits; the database and the two remote services answer as they like.    *)

\* Bounds.
MaxEvents == 2
MaxRetries == 2

\* initializeCalendarSyncSettings (lines 158-198): the row is created when
\* the select finds none.
Initialized(row) == IF row.exists THEN row ELSE NewSettings

\* The events the calendar API can list: an all-day event, a timed event, an
\* event without start and one whose start.dateTime is not a date.
GoogleEvents ==
    { [id |-> "g1", start |-> "date"],
      [id |-> "g2", start |-> "dateTime"],
      [id |-> "g3", start |-> "none"],
      [id |-> "g4", start |-> "invalid"] }

EventLists == UNION { SeqsOfLen(GoogleEvents, n) : n \in 0..MaxEvents }

GoogleRow(id) == [external_id |-> id, external_source |-> "google"]

IsGoogle(row) == row.external_source = "google"

\* The .map(...).filter(...) of lines 314-360: an event without start and an
\* event whose date cannot be converted give null and are dropped.
RECURSIVE Converted(_)
Converted(events) ==
    IF events = <<>> THEN <<>>
    ELSE (IF Head(events).start \in { "date", "dateTime" }
          THEN << GoogleRow(Head(events).id) >>
          ELSE <<>>) \o Converted(Tail(events))

\* How the calendar API answers the events request.
EventsAnswers ==
    { [status |-> 200, items |-> l] : l \in EventLists }
        \cup { [status |-> s, items |-> <<>>] : s \in { 0, 401, 500 } }

\* How the token proxy answers: not ok, or new tokens with or without a new
\* refresh token.
RefreshAnswers ==
    { [ok |-> FALSE, tokens |-> NoTokens],
      [ok |-> TRUE, tokens |-> [access_token |-> "at1", refresh_token |-> null]],
      [ok |-> TRUE, tokens |-> [access_token |-> "at1", refresh_token |-> "rt1"]] }

ExchangeAnswers ==
    { [ok |-> FALSE, tokens |-> NoTokens],
      [ok |-> TRUE, tokens |-> [access_token |-> "at2", refresh_token |-> null]],
      [ok |-> TRUE, tokens |-> [access_token |-> "at2", refresh_token |-> "rt2"]] }

Throws(message) == [sync EXCEPT !.pc = "failed", !.thrown = message]

otherVars == << handlerVars, call, result, mealVars >>

\* Lines 226-231: await initializeCalendarSyncSettings(familyId).
SyncInitialize ==
    /\ sync.pc = "initialize"
    /\ \E error \in BOOLEAN :
          IF error
          THEN /\ sync' = Throws("settings")
               /\ UNCHANGED calendar_sync_settings
          ELSE /\ calendar_sync_settings' = Initialized(calendar_sync_settings)
               /\ sync' = [sync EXCEPT !.pc = "select"]
    /\ UNCHANGED << calendar_events, disconnect, auth, otherVars >>

\* Lines 232-253: the settings are read; without an access token the call
\* throws, otherwise the events request is sent with the token read.
SyncSelect ==
    /\ sync.pc = "select"
    /\ \E settingsError \in BOOLEAN :
          IF settingsError \/ ~calendar_sync_settings.exists
          THEN sync' = Throws("Could not fetch sync settings")
          ELSE IF calendar_sync_settings.google_access_token = null
          THEN sync' = Throws("No Google Calendar access token found")
          ELSE sync' = [sync EXCEPT
                  !.pc = "events",
                  !.syncSettings =
                      [google_access_token |-> calendar_sync_settings.google_access_token,
                       google_refresh_token |-> calendar_sync_settings.google_refresh_token]]
    /\ UNCHANGED << calendar_sync_settings, calendar_events, disconnect, auth, otherVars >>

\* Lines 274-362: the calendar API answers (status 0: the fetch rejects).  On
\* 401 the refresh request is sent if a refresh token was read.
SyncEvents ==
    /\ sync.pc = "events"
    /\ \E answer \in EventsAnswers :
          IF answer.status = 0 THEN sync' = Throws("fetch")
          ELSE IF answer.status = 401
          THEN /\ sync.retries < MaxRetries
               /\ IF sync.syncSettings.google_refresh_token # null
                  THEN sync' = [sync EXCEPT !.pc = "refresh",
                                            !.refreshes = @ + 1]
                  ELSE sync' = Throws("Google Calendar access expired")
          ELSE IF answer.status # 200
          THEN sync' = Throws("Google Calendar API error")
          ELSE sync' = [sync EXCEPT
                  !.pc = "delete",
                  !.totalFound = Len(answer.items),
                  !.familyHubEvents = Converted(answer.items)]
    /\ UNCHANGED << calendar_sync_settings, calendar_events, disconnect, auth, otherVars >>

\* refreshGoogleToken, lines 429-449: the proxy answers; when it refuses the
\* function returns false and the sync throws (line 292).
SyncRefresh ==
    /\ sync.pc = "refresh"
    /\ \E answer \in RefreshAnswers :
          IF answer.ok
          THEN sync' = [sync EXCEPT !.pc = "store", !.tokens = answer.tokens]
          ELSE sync' = Throws("Google Calendar access expired")
    /\ UNCHANGED << calendar_sync_settings, calendar_events, disconnect, auth, otherVars >>

\* refreshGoogleToken, lines 451-467, and lines 287-290: the new access token
\* (and the refresh token if one came) is written to the family's row, the
\* result of the update is not looked at, true is returned and the sync
\* calls itself.
SyncStore ==
    /\ sync.pc = "store"
    /\ \E error \in BOOLEAN :
          calendar_sync_settings' =
              IF error \/ ~calendar_sync_settings.exists
              THEN calendar_sync_settings
              ELSE [calendar_sync_settings EXCEPT
                      !.google_access_token = sync.tokens.access_token,
                      !.google_refresh_token =
                          IF sync.tokens.refresh_token # null
                          THEN sync.tokens.refresh_token ELSE @]
    /\ sync' = FreshSync(sync.refreshes, sync.retries + 1)
    /\ UNCHANGED << calendar_events, disconnect, auth, otherVars >>

\* Lines 364-375: the family's google rows are deleted; an error is logged.
SyncDelete ==
    /\ sync.pc = "delete"
    /\ \E deleteError \in BOOLEAN :
          calendar_events' =
              IF deleteError THEN calendar_events
              ELSE SelectSeq(calendar_events, LAMBDA row : ~IsGoogle(row))
    /\ sync' = [sync EXCEPT !.pc = IF sync.familyHubEvents # <<>>
                                   THEN "insert" ELSE "stamp"]
    /\ UNCHANGED << calendar_sync_settings, disconnect, auth, otherVars >>

\* Lines 377-394: the converted events are inserted in one statement; an
\* error is counted.
SyncInsert ==
    /\ sync.pc = "insert"
    /\ \E insertError \in BOOLEAN :
          IF insertError
          THEN /\ sync' = [sync EXCEPT !.pc = "stamp",
                                       !.errorCount = Len(sync.familyHubEvents)]
               /\ UNCHANGED calendar_events
          ELSE /\ calendar_events' = calendar_events \o sync.familyHubEvents
               /\ sync' = [sync EXCEPT !.pc = "stamp",
                                       !.insertedCount = Len(sync.familyHubEvents)]
    /\ UNCHANGED << calendar_sync_settings, disconnect, auth, otherVars >>

\* Lines 396-421: the timestamp is updated (the row's tokens are not) and
\* the result is returned.
SyncReturn ==
    /\ sync.pc = "stamp"
    /\ sync' = [sync EXCEPT !.pc = "done", !.success = TRUE]
    /\ UNCHANGED << calendar_sync_settings, calendar_events, disconnect, auth, otherVars >>

\* disconnectGoogleCalendar, lines 476-490: the tokens are cleared.
DisconnectUpdate ==
    /\ disconnect.pc = "update"
    /\ \E error \in BOOLEAN :
          IF error
          THEN /\ disconnect' = [pc |-> "failed", thrown |-> "update"]
               /\ UNCHANGED calendar_sync_settings
          ELSE /\ disconnect' = [disconnect EXCEPT !.pc = "delete"]
               /\ calendar_sync_settings' =
                    IF calendar_sync_settings.exists
                    THEN [calendar_sync_settings EXCEPT
                            !.google_calendar_enabled = FALSE,
                            !.google_access_token = null,
                            !.google_refresh_token = null]
                    ELSE calendar_sync_settings
    /\ UNCHANGED << calendar_events, sync, auth, otherVars >>

\* disconnectGoogleCalendar, lines 492-499: the google rows are removed and
\* { success: true } is returned.
DisconnectDelete ==
    /\ disconnect.pc = "delete"
    /\ \E error \in BOOLEAN :
          calendar_events' =
              IF error THEN calendar_events
              ELSE SelectSeq(calendar_events, LAMBDA row : ~IsGoogle(row))
    /\ disconnect' = [disconnect EXCEPT !.pc = "done"]
    /\ UNCHANGED << calendar_sync_settings, sync, auth, otherVars >>

\* handleGoogleAuthCallback, lines 526-550: the code is exchanged.
AuthExchange ==
    /\ auth.pc = "exchange"
    /\ \E answer \in ExchangeAnswers :
          IF answer.ok
          THEN auth' = [auth EXCEPT !.pc = "initialize", !.tokens = answer.tokens]
          ELSE auth' = [auth EXCEPT !.pc = "failed",
                                    !.thrown = "Failed to exchange code for token"]
    /\ UNCHANGED << calendar_sync_settings, calendar_events, sync, disconnect, otherVars >>

\* handleGoogleAuthCallback, line 553.
AuthInitialize ==
    /\ auth.pc = "initialize"
    /\ \E error \in BOOLEAN :
          IF error
          THEN /\ auth' = [auth EXCEPT !.pc = "failed", !.thrown = "settings"]
               /\ UNCHANGED calendar_sync_settings
          ELSE /\ calendar_sync_settings' = Initialized(calendar_sync_settings)
               /\ auth' = [auth EXCEPT !.pc = "store"]
    /\ UNCHANGED << calendar_events, sync, disconnect, otherVars >>

\* handleGoogleAuthCallback, lines 555-572: the tokens are stored.  The
\* field sinceDisconnect records that this happened after a disconnect had
\* cleared the tokens.
AuthStore ==
    /\ auth.pc = "store"
    /\ \E error \in BOOLEAN :
          IF error
          THEN /\ auth' = [auth EXCEPT !.pc = "failed", !.thrown = "update"]
               /\ UNCHANGED calendar_sync_settings
          ELSE /\ auth' = [auth EXCEPT !.pc = "done",
                                       !.sinceDisconnect =
                                           disconnect.pc \in { "delete", "done" }]
               /\ calendar_sync_settings' =
                    IF calendar_sync_settings.exists
                    THEN [calendar_sync_settings EXCEPT
                            !.google_calendar_enabled = TRUE,
                            !.google_access_token = auth.tokens.access_token,
                            !.google_refresh_token = auth.tokens.refresh_token]
                    ELSE calendar_sync_settings
    /\ UNCHANGED << calendar_events, sync, disconnect, otherVars >>

\* The rows stored before the functions run: one the user entered and one
\* of an earlier sync.
StoredBefore ==
    << [external_id |-> "m1", external_source |-> null], GoogleRow("g0") >>

\* The family connected its calendar earlier (with or without a refresh
\* token); a sync, a disconnect and an authorisation callback are called.
InitCalendar ==
    /\ HandlerInit({}, Inputs)
    /\ call = NoCall
    /\ result = <<>>
    /\ MealIdle
    /\ \E refresh \in { null, "rt0" } :
          calendar_sync_settings =
              [NewSettings EXCEPT !.google_calendar_enabled = TRUE,
                                  !.google_access_token = "at0",
                                  !.google_refresh_token = refresh]
    /\ calendar_events = StoredBefore
    /\ sync = FreshSync(0, 0)
    /\ disconnect = [pc |-> "update", thrown |-> ""]
    /\ auth = [pc |-> "exchange", tokens |-> NoTokens, thrown |-> "",
               sinceDisconnect |-> FALSE]

NextCalendar ==
    \/ SyncInitialize
    \/ SyncSelect
    \/ SyncEvents
    \/ SyncRefresh
    \/ SyncStore
    \/ SyncDelete
    \/ SyncInsert
    \/ SyncReturn
    \/ DisconnectUpdate
    \/ DisconnectDelete
    \/ AuthExchange
    \/ AuthInitialize
    \/ AuthStore

CalendarSpec == InitCalendar /\ [][NextCalendar]_vars

-----------------------------------------------------------------------------
(* The week list of the MealPlan component (src/unnamed/part_005, lines    *)
(* 797-1510).  An asynchronous function sees the state of the render it was *)
(* called in; what it awaits finishes at any later time.                    *)

\* Bounds.
MaxWeek == 3
MaxLoads == 2

Weeks == 1..MaxWeek

Range(s) == { s[i] : i \in DOMAIN s }

\* Math.max(...weeks, 0)
MaxOf(weeks) ==
    IF weeks = <<>> THEN 0
    ELSE CHOOSE w \in Range(weeks) : \A v \in Range(weeks) : v <= w

\* [...new Set(numbers)].sort((a, b) => a - b)
RECURSIVE SortedSet(_)
SortedSet(S) ==
    IF S = {} THEN <<>>
    ELSE LET least == CHOOSE w \in S : \A v \in S : w <= v
         IN  << least >> \o SortedSet(S \ { least })

Without(weeks, week) == SelectSeq(weeks, LAMBDA w : w # week)

otherThanMeal == << handlerVars, call, result, calendarVars >>

\* loadMealPlan, lines 850-888, when its selects have answered: the first
\* select failed (nothing is set), the second gave no data (`|| [1]`), or
\* the weeks are those of the family's rows.
LoadMealPlan ==
    /\ pending.loads > 0
    /\ \E answer \in { "error", "no data", "rows" } :
          availableWeeks' =
              IF answer = "error" THEN availableWeeks
              ELSE IF answer = "no data" THEN << 1 >>
              ELSE SortedSet(meals)
    /\ pending' = [pending EXCEPT !.loads = @ - 1, !.loading = FALSE]
    /\ UNCHANGED << meals, currentWeek, otherThanMeal >>

\* addWeek, lines 1267-1348.
AddWeek ==
    /\ ~pending.loading
    /\ LET nextWeek == IF Len(availableWeeks) = 0 THEN 1
                       ELSE MaxOf(availableWeeks) + 1
       IN  /\ nextWeek <= MaxWeek
           /\ availableWeeks' = Append(availableWeeks, nextWeek)
           /\ currentWeek' = nextWeek
    /\ UNCHANGED << meals, pending, otherThanMeal >>

\* The week buttons, line 1482.
SelectWeek(weekNum) ==
    /\ ~pending.loading
    /\ weekNum \in Range(availableWeeks)
    /\ weekNum # currentWeek
    /\ currentWeek' = weekNum
    /\ UNCHANGED << meals, availableWeeks, pending, otherThanMeal >>

\* deleteWeek, lines 1350-1363: the user confirmed and the deletes are sent.
DeleteWeek(weekToDelete) ==
    /\ ~pending.loading
    /\ ~pending.deleteWeek.active
    /\ weekToDelete \in Range(availableWeeks)
    /\ Len(availableWeeks) > 1
    /\ pending' = [pending EXCEPT !.deleteWeek =
                      [active |-> TRUE, week |-> weekToDelete,
                       availableWeeks |-> availableWeeks,
                       currentWeek |-> currentWeek]]
    /\ UNCHANGED << meals, currentWeek, availableWeeks, otherThanMeal >>

\* deleteWeek, lines 1354-1379: the deletes answered (or were rejected).
DeleteWeekDone ==
    /\ pending.deleteWeek.active
    /\ \E rejected \in BOOLEAN :
          IF rejected
          THEN UNCHANGED << meals, availableWeeks, currentWeek >>
          ELSE LET c == pending.deleteWeek
                   newWeeks == Without(c.availableWeeks, c.week)
               IN  /\ meals' = meals \ { c.week }
                   /\ availableWeeks' = newWeeks
                   /\ currentWeek' =
                        IF c.currentWeek = c.week
                        THEN (IF newWeeks # <<>> THEN newWeeks[1] ELSE 1)
                        ELSE currentWeek
    /\ pending' = [pending EXCEPT !.deleteWeek = NoWeekCall]
    /\ UNCHANGED otherThanMeal

\* duplicateWeek(currentWeek), lines 1383-1392: the source rows are asked for.
DuplicateWeek ==
    /\ ~pending.loading
    /\ ~pending.duplicateWeek.active
    /\ MaxOf(availableWeeks) + 1 <= MaxWeek
    /\ pending' = [pending EXCEPT !.duplicateWeek =
                      [active |-> TRUE, week |-> currentWeek,
                       availableWeeks |-> availableWeeks,
                       currentWeek |-> currentWeek]]
    /\ UNCHANGED << meals, currentWeek, availableWeeks, otherThanMeal >>

\* duplicateWeek, lines 1392-1427: the rows are copied to the next week, the
\* state is set and loadMealPlan is called.
DuplicateWeekDone ==
    /\ pending.duplicateWeek.active
    /\ \E rejected \in BOOLEAN :
          IF rejected
          THEN /\ pending' = [pending EXCEPT !.duplicateWeek = NoWeekCall]
               /\ UNCHANGED << meals, availableWeeks, currentWeek >>
          ELSE LET c == pending.duplicateWeek
                   nextWeek == MaxOf(c.availableWeeks) + 1
               IN  /\ pending.loads < MaxLoads
                   /\ meals' = IF c.week \in meals
                               THEN meals \cup { nextWeek } ELSE meals
                   /\ availableWeeks' = Append(c.availableWeeks, nextWeek)
                   /\ currentWeek' = nextWeek
                   /\ pending' = [pending EXCEPT !.duplicateWeek = NoWeekCall,
                                                 !.loads = @ + 1]
    /\ UNCHANGED otherThanMeal

\* The component is mounted for a family (useState at lines 802-803 and 813)
\* and the effect of lines 842-848 has called loadMealPlan.
InitMeal ==
    /\ HandlerInit({}, Inputs)
    /\ call = NoCall
    /\ result = <<>>
    /\ CalendarIdle
    /\ meals \in SUBSET (1..(MaxWeek - 1))
    /\ currentWeek = 1
    /\ availableWeeks = <<>>
    /\ pending = [loads |-> 1, loading |-> TRUE,
                  deleteWeek |-> NoWeekCall, duplicateWeek |-> NoWeekCall]

NextMeal ==
    \/ LoadMealPlan
    \/ AddWeek
    \/ \E weekNum \in Weeks : SelectWeek(weekNum)
    \/ \E weekNum \in Weeks : DeleteWeek(weekNum)
    \/ DeleteWeekDone
    \/ DuplicateWeek
    \/ DuplicateWeekDone

MealSpec == InitMeal /\ [][NextMeal]_vars

-----------------------------------------------------------------------------
(* Properties of the handler.                                              *)

Done(r) == pc[r] = "done"

IsPost(r) == event[r].httpMethod = "POST"

\* The page fetch of request r failed: the promise rejected, was aborted by
\* the timer, or resolved with a status outside 2xx.
FetchFailed(r) ==
    \/ fetched[r] \in { "rejected", "aborted" }
    \/ fetched[r] = "resolved" /\ ~StatusOk(upstream[r].status)

\* C1: a POST with a non-empty url whose page fetch throws, is aborted by the
\* timeout or answers a non-2xx status gets HTTP 200 with success = true,
\* source = "fallback", recipe.name = "Recipe from " + site name and the two
\* fixed manual-entry placeholders as ingredients and instructions.
C1_FetchFailureGivesFallback ==
    \A r \in DOMAIN pc :
        (Done(r) /\ IsPost(r) /\ Truthy(event[r].body.url) /\ FetchFailed(r)) =>
            /\ response[r].statusCode = 200
            /\ response[r].success
            /\ response[r].source = "fallback"
            /\ response[r].recipe.source = "fallback"
            /\ response[r].recipe.name
                  = Str(S_RecipeFrom \o getSiteName(event[r].body.url))
            /\ response[r].recipe.ingredients = Str(S_AddIngredients)
            /\ response[r].recipe.instructions = Str(S_AddInstructionsFull)

\* C1 witness: a fetch aborted by the timer was answered with the fallback
\* record of the site "a.co".
C1_Witness ==
    \E r \in DOMAIN pc :
        /\ Done(r) /\ fetched[r] = "aborted"
        /\ event[r].body.url = Str(U_wwwA)
        /\ response[r].recipe.name = Str(S_RecipeFrom \o << "a", ".", "c", "o" >>)

\* The body of a POST gives the handler a falsy url: the body is absent or
\* is JSON whose url is missing, null, "" or 0.
BodyUrlFalsy(body) ==
    \/ body.k = "absent"
    \/ body.k = "object" /\ ~Truthy(body.url)

\* The url field of the body is missing or empty.
BodyUrlMissingOrEmpty(body) ==
    \/ body.k # "object"
    \/ body.url.t \in { "undef", "null" }
    \/ body.url.t = "str" /\ body.url.v = <<>>

\* C2 as stated: a POST is answered 400 if and only if the url field of the
\* body is missing or empty, and 200 in every other case.
C2_Original ==
    \A r \in DOMAIN pc :
        (Done(r) /\ IsPost(r)) =>
            /\ response[r].statusCode \in { 200, 400 }
            /\ response[r].statusCode = 400 <=> BodyUrlMissingOrEmpty(event[r].body)

\* C2 amended: a POST is answered 400 if and only if its body is absent or
\* parses as JSON to a non-null value whose url is falsy (missing, null, ""
\* or 0); a body that is not JSON, or is the JSON null, is answered 200 with
\* the fallback record; every other POST is answered 200.
C2_BadRequestIffFalsyUrl ==
    \A r \in DOMAIN pc :
        (Done(r) /\ IsPost(r)) =>
            /\ response[r].statusCode \in { 200, 400 }
            /\ response[r].statusCode = 400 <=> BodyUrlFalsy(event[r].body)
            /\ event[r].body.k \in { "malformed", "null" } =>
                  /\ response[r].statusCode = 200
                  /\ response[r].source = "fallback"

\* C2 witness: a POST whose body is not JSON was answered 200.
C2_Witness ==
    \E r \in DOMAIN pc :
        /\ Done(r) /\ IsPost(r)
        /\ event[r].body.k = "malformed"
        /\ response[r].statusCode = 200

\* url values the URL constructor rejects.
UnparseableUrls == { Str(U_noScheme), Str(U_noHost), Num(5) }

\* C3: when the url of the body does not parse as an absolute URL the handler
\* fails locally (it answers the fallback without ever suspending) and no
\* outbound request is issued.
C3_InvalidUrlNeverFetches ==
    \A r \in DOMAIN pc :
        (IsPost(r) /\ event[r].body.k = "object"
                   /\ event[r].body.url \in UnparseableUrls) =>
            /\ fetchCount[r] = 0
            /\ fetched[r] = "none"
            /\ pc[r] \in { "start", "done" }
            /\ Done(r) => response[r].source = "fallback"

\* C3 witness: the url "a.co/r" was answered with the fallback, no fetch.
C3_Witness ==
    \E r \in DOMAIN pc :
        /\ Done(r) /\ IsPost(r)
        /\ event[r].body.url = Str(U_noScheme)
        /\ response[r].source = "fallback"
        /\ fetchCount[r] = 0

\* C4: a request whose method is neither POST nor OPTIONS is answered 405;
\* its body is never parsed and no fetch is issued.
C4_OtherMethodsGet405 ==
    \A r \in DOMAIN pc :
        event[r].httpMethod \notin { "POST", "OPTIONS" } =>
            /\ ~bodyParsed[r]
            /\ fetchCount[r] = 0
            /\ pc[r] \in { "start", "done" }
            /\ Done(r) => response[r].statusCode = 405

\* C4 witness: a DELETE carrying a valid url was answered 405.
C4_Witness ==
    \E r \in DOMAIN pc :
        /\ Done(r)
        /\ event[r].httpMethod = "DELETE"
        /\ event[r].body.url = Str(U_wwwA)
        /\ response[r].statusCode = 405

\* C5: one inbound request issues at most one page fetch, exactly one when
\* it is a POST with a parseable url, and a failed fetch is not retried.
C5_AtMostOneFetch ==
    \A r \in DOMAIN pc :
        /\ fetchCount[r] <= 1
        /\ (pc[r] # "start" /\ PostsParseableUrl(event[r])) => fetchCount[r] = 1
        /\ ~PostsParseableUrl(event[r]) => fetchCount[r] = 0

\* C5 witness: a rejected fetch, answered, with one fetch issued in all.
C5_Witness ==
    \E r \in DOMAIN pc :
        /\ Done(r) /\ fetched[r] = "rejected" /\ fetchCount[r] = 1

\* An import request: a POST whose body gives a non-empty url.
ImportRequest(r) ==
    IsPost(r) /\ event[r].body.k = "object" /\ Truthy(event[r].body.url)

InLog(r, line) == \E i \in 1..Len(log[r]) : log[r][i] = line

\* The stage a console line belongs to: 1-3 entry and validation, 4-5
\* Fetching, 6 body read, 7 Extracting (a block was skipped), 8
\* Responding(success), 9 Responding(fallback).
StageOf(line) ==
    CASE line = "Recipe parser called:" -> 1
      [] line = "Parsing recipe from:" -> 2
      [] line = "Site name:" -> 3
      [] line = "Fetching webpage..." -> 4
      [] line = "Fetch response status:" -> 5
      [] line = "HTML length:" -> 6
      [] line = "JSON parse error:" -> 7
      [] line = "Parsed recipe:" -> 8
      [] line = "Recipe parser error:" -> 9

\* The stages are entered in order, none twice (a skipped block may repeat),
\* and nothing follows a response.
StagesInOrder(r) ==
    /\ \A i, j \in 1..Len(log[r]) :
          i < j => \/ StageOf(log[r][i]) < StageOf(log[r][j])
                   \/ log[r][i] = "JSON parse error:" /\ log[r][j] = "JSON parse error:"
    /\ ~(InLog(r, "Parsed recipe:") /\ InLog(r, "Recipe parser error:"))

\* A failure raised by validation, the fetch or the body read.
HandlerFailure(r) ==
    \/ ~PostsParseableUrl(event[r])
    \/ FetchFailed(r)
    \/ fetched[r] = "resolved" /\ upstream[r].body = "error"

C7_EveryRequestAnswered ==
    \A r \in Requests :
        (r \in DOMAIN pc /\ PostsParseableUrl(event[r]))
            ~> (r \in DOMAIN pc /\ pc[r] = "done")

\* The page of request r was fetched and read.
Delivered(r) ==
    /\ Done(r)
    /\ fetched[r] = "resolved" /\ StatusOk(upstream[r].status)
    /\ upstream[r].body = "ok"

\* The JSON-LD objects of a page in document order.
RECURSIVE ItemsFrom(_, _)
ItemsFrom(blocks, k) ==
    IF k > Len(blocks) THEN <<>>
    ELSE (IF blocks[k].malformed THEN <<>>
          ELSE IF blocks[k].data.t = "arr" THEN blocks[k].data.v
          ELSE << blocks[k].data >>)
         \o ItemsFrom(blocks, k + 1)

\* The type set of the object includes "Recipe": @type is the string, or an
\* array of names that holds it.
TypeIncludesRecipe(item) ==
    /\ item.t = "obj"
    /\ \/ item.v.atType.t = "str" /\ item.v.atType.v = S_Recipe
       \/ /\ item.v.atType.t = "arr"
          /\ \E i \in 1..Len(item.v.atType.v) :
                /\ item.v.atType.v[i].t = "str"
                /\ item.v.atType.v[i].v = S_Recipe

\* The objects of type Recipe of a page, in document order.
RecipeObjects(html) == SelectSeq(ItemsFrom(html.blocks, 1), TypeIncludesRecipe)

IsStringArray(x) ==
    x.t = "arr" /\ \A i \in 1..Len(x.v) : x.v[i].t = "str" /\ Len(x.v[i].v) > 0

\* A Recipe object with string arrays and, at most, a string cookTime.
WellFormedRecipe(item) ==
    /\ TypeIncludesRecipe(item)
    /\ IsStringArray(item.v.recipeIngredient)
    /\ IsStringArray(item.v.recipeInstructions)
    /\ item.v.cookTime.t \in { "str", "undef" }
    /\ item.v.totalTime.t \in { "str", "undef" }

\* "1. s1", "2. s2", ... for the strings s1, s2, ...
NumberedSteps(a) == [i \in 1..Len(a) |-> Str(NumToStr(i) \o S_dotSpace \o a[i].v)]

\* C8: for a fetched page whose (first) JSON-LD Recipe object is well formed
\* the response has source "structured-data", ingredients is the
\* recipeIngredient array joined with newlines and instructions is the
\* recipeInstructions array numbered and joined with blank lines.
C8_Original ==
    \A r \in DOMAIN pc :
        LET recipes == RecipeObjects(upstream[r].html)
        IN  (Delivered(r) /\ Len(recipes) > 0 /\ WellFormedRecipe(recipes[1])) =>
                /\ response[r].source = "structured-data"
                /\ response[r].recipe.ingredients
                      = Str(Join(recipes[1].v.recipeIngredient.v, << "\n" >>))
                /\ response[r].recipe.instructions
                      = Str(Join(NumberedSteps(recipes[1].v.recipeInstructions.v),
                                 << "\n", "\n" >>))

\* C9: when a page holds several JSON-LD objects of type Recipe the record
\* is built from the first one in document order.
C9_Original ==
    \A r \in DOMAIN pc :
        LET recipes == RecipeObjects(upstream[r].html)
        IN  (Delivered(r) /\ Len(recipes) >= 2) =>
                /\ response[r].source = "structured-data"
                /\ response[r].recipe.name = recipes[1].v.name

\* C10: an object whose @type is an array that includes "Recipe" is selected
\* as a recipe, as an object whose @type is the string "Recipe" is.
C10_Original ==
    \A r \in DOMAIN pc :
        LET recipes == RecipeObjects(upstream[r].html)
        IN  (Delivered(r) /\ Len(recipes) > 0 /\ recipes[1].v.atType.t = "arr") =>
                /\ response[r].source = "structured-data"
                /\ response[r].recipe.name = recipes[1].v.name

\* The objects of type Recipe of a run of blocks, in document order.
RecipesOf(blocks) == SelectSeq(ItemsFrom(blocks, 1), TypeIncludesRecipe)

\* Block j of the page is the first that holds a Recipe object, that object
\* is well formed, and a block that is not valid JSON comes before it.
FirstRecipeAfterMalformed(html, j) ==
    /\ \E i \in 1..(j - 1) : html.blocks[i].malformed
    /\ RecipesOf(SubSeq(html.blocks, 1, j - 1)) = <<>>
    /\ RecipesOf(<< html.blocks[j] >>) # <<>>
    /\ WellFormedRecipe(RecipesOf(<< html.blocks[j] >>)[1])

\* C11: a JSON-LD block that is not valid JSON is skipped without aborting
\* the scan: when a later block holds a well-formed Recipe object, the
\* record is built from that block and the source is "structured-data".
C11_Original ==
    \A r \in DOMAIN pc :
        Delivered(r) =>
            \A j \in 1..Len(upstream[r].html.blocks) :
                FirstRecipeAfterMalformed(upstream[r].html, j) =>
                    /\ response[r].source = "structured-data"
                    /\ response[r].recipe.name
                          = RecipesOf(<< upstream[r].html.blocks[j] >>)[1].v.name

\* Request r was answered 200 with a recipe record.
CarriesRecipe(r) == Done(r) /\ response[r].statusCode = 200 /\ response[r].success

RecordFields ==
    { "name", "description", "ingredients", "instructions", "cookTime",
      "servings", "author", "siteName" }

\* C12: in every 200 response each field of the recipe record is a string
\* (never null, undefined, a number, an array or an object); the source
\* field of the record is one of the tags, which are strings.
C12_Original ==
    \A r \in DOMAIN pc :
        CarriesRecipe(r) =>
            /\ \A f \in RecordFields : response[r].recipe[f].t = "str"
            /\ response[r].recipe.source # ""

\* C13: in every 200 response the provenance tag of the recipe record is
\* "structured-data", "html-parsing" or "fallback".
C13_Original ==
    \A r \in DOMAIN pc :
        CarriesRecipe(r) =>
            response[r].recipe.source \in { "structured-data", "html-parsing", "fallback" }

\* The page of request r was read, holds no JSON-LD object of type Recipe
\* and nothing but its <title> for the HTML patterns to match.
TitleOnlyPage(r) ==
    /\ Delivered(r)
    /\ RecipeObjects(upstream[r].html) = <<>>
    /\ upstream[r].html.title # <<>>
    /\ upstream[r].html.metaDescription = <<>>
    /\ upstream[r].html.ogDescription = <<>>

\* C14: for a fetched page with no JSON-LD recipe and nothing for the HTML
\* extraction to match but the <title>, the response has source
\* "html-parsing", name is the text of the <title>, and description,
\* ingredients, instructions, cookTime, servings and author are "".
C14_Original ==
    \A r \in DOMAIN pc :
        TitleOnlyPage(r) =>
            /\ response[r].source = "html-parsing"
            /\ response[r].recipe.name = Str(upstream[r].html.title)
            /\ \A f \in RecordFields \ { "name", "siteName" } :
                  response[r].recipe[f] = Str(<<>>)

\* "{h} hours {m} minutes" for the components h and m, an absent component
\* omitted and no space left at either end.
Rendered(h, m) ==
    IF h # <<>> /\ m # <<>> THEN h \o << " ","h","o","u","r","s"," " >> \o m \o << " ","m","i","n","u","t","e","s" >>
    ELSE IF h # <<>> THEN h \o << " ","h","o","u","r","s" >>
    ELSE IF m # <<>> THEN m \o << " ","m","i","n","u","t","e","s" >>
    ELSE <<>>

\* C15: formatTime maps a string beginning with "PT" to "{h} hours {m}
\* minutes" built from its hour and minute components (an absent component
\* omitted, no trailing space) and returns every other string unchanged.
C15_FormatTime ==
    (call.fn = "formatTime" /\ result # <<>>) =>
        /\ \A d \in IsoDurations :
              call.arg = Str(d.text) => result[1] = Ok(Str(Rendered(d.hours, d.minutes)))
        /\ ~HasPrefix(call.arg.v, S_PT) => result[1] = Ok(call.arg)

\* C15 witness: "PT1H30M" gave "1 hours 30 minutes", "PT45M" gave
\* "45 minutes", or "not-iso" came back as it was.
C15_Witness ==
    /\ call.fn = "formatTime" /\ result # <<>>
    /\ \/ call.arg = Str(<< "P","T","1","H","3","0","M" >>) /\ result[1].v = Str(<< "1"," ","h","o","u","r","s"," ","3","0"," ","m","i","n","u","t","e","s" >>)
       \/ call.arg = Str(<< "P","T","4","5","M" >>) /\ result[1].v = Str(<< "4","5"," ","m","i","n","u","t","e","s" >>)

\* "i. s_i", a blank line, "i+1. s_i+1", ... for the strings of a from i on.
RECURSIVE NumberedFromTo(_, _)
NumberedFromTo(a, i) ==
    IF i > Len(a) THEN <<>>
    ELSE NumToStr(i) \o << ".", " " >> \o a[i].v
         \o (IF i < Len(a) THEN << "\n", "\n" >> ELSE <<>>)
         \o NumberedFromTo(a, i + 1)

\* C16: for a list of n non-empty instruction strings s1..sn,
\* extractInstructions returns "1. s1", "2. s2", ..., "n. sn" in input
\* order, joined by a blank line.
C16_NumberedSteps ==
    (call.fn = "extractInstructions" /\ result # <<>> /\ IsStringArray(call.arg)) =>
        result[1] = Ok(Str(NumberedFromTo(call.arg.v, 1)))

\* C16 witness: ["b b", "a"] gave "1. b b", a blank line, "2. a".
C16_Witness ==
    /\ call.fn = "extractInstructions"
    /\ call.arg = Arr(<< Str(<< "b", " ", "b" >>), Str(<< "a" >>) >>)
    /\ result = << Ok(Str(<< "1", ".", " ", "b", " ", "b", "\n", "\n",
                             "2", ".", " ", "a" >>)) >>

\* The places of the host h at which "www." occurs.
WwwAt(h) == { i \in 1..(Len(h) - 3) : SubSeq(h, i, i + 3) = << "w", "w", "w", "." >> }

\* The host h with "www." stripped: h itself when it holds no "www.", and
\* h without one occurrence of it otherwise (the claim does not say which).
Stripped(h) ==
    IF WwwAt(h) = {} THEN { h }
    ELSE { SubSeq(h, 1, i - 1) \o SubSeq(h, i + 4, Len(h)) : i \in WwwAt(h) }

\* The friendly name of a stripped host that is in the table, the stripped
\* host otherwise.
Friendly(h) == IF h \in DOMAIN siteNames THEN siteNames[h] ELSE h

RECURSIVE FirstString(_)
FirstString(x) ==
    CASE x.t = "str" -> x.v
      [] x.t = "obj" -> IF x.v.name.t = "str" THEN x.v.name.v ELSE <<>>
      [] x.t = "arr" ->
            LET named == { i \in 1..Len(x.v) : FirstString(x.v[i]) # <<>> }
            IN  IF named = {} THEN <<>> ELSE FirstString(x.v[SetMin(named)])
      [] OTHER -> <<>>

\* C19: author normalization accepts a string, an object with a name, or an
\* array of such values and returns the first available string among them;
\* it returns "" only when no string is available.
C19_Original ==
    (call.fn = "getAuthor" /\ result # <<>>) => result[1] = Str(FirstString(call.arg))

\* The responses the event e can get when it is the only request handled
\* and the origin answers u: what the handler returns before its first
\* await, or the fallback (the fetch or the body read fails, or the timer
\* aborts the fetch first), or the success envelope for the page.
AloneResponse(s, u) ==
    IF s.pc = "done" THEN { s.response }
    ELSE { FallbackResponse(s.url) }
         \cup (IF u.headers = "status" /\ StatusOk(u.status) /\ u.body = "ok"
               THEN { SuccessResponse(parseRecipe(u.html, s.url, s.siteName).recipe) }
               ELSE {})

\* The response of r is one it would get if it ran alone.
Isolated(r) ==
    \E s \in { HandlerStart(event[r]) } : response[r] \in AloneResponse(s, upstream[r])

\* Nothing the invocation of r started is still pending.
NothingOutlives(r) == timer[r] # "armed"

\* C20: for any interleaving of two concurrently handled import requests,
\* each response equals the response the request would get if it ran alone
\* against the same upstream answer, and once a request is answered no
\* task started for it is left running.
C20_Original ==
    \A r \in DOMAIN pc : Done(r) => Isolated(r) /\ NothingOutlives(r)

\* The text of one recipeInstructions entry: the string itself, else the
\* text of the object, else its name; <<>> when it has none.
StepText(inst) ==
    CASE inst.t = "str" -> inst.v
      [] inst.t = "obj" ->
            IF inst.v.text.t = "str" /\ inst.v.text.v # <<>> THEN inst.v.text.v
            ELSE IF inst.v.name.t = "str" THEN inst.v.name.v
            ELSE <<>>
      [] OTHER -> <<>>

\* The entries of a that yield text, as strings, in input order.
RECURSIVE EmittedSteps(_, _)
EmittedSteps(a, i) ==
    IF i > Len(a) THEN <<>>
    ELSE (IF StepText(a[i]) # <<>> THEN << Str(StepText(a[i])) >> ELSE <<>>)
         \o EmittedSteps(a, i + 1)

\* C21: the entries of recipeInstructions that yield empty text are omitted
\* and the remaining k steps keep their input order and carry the numbers
\* 1, 2, ..., k with no gaps.
C21_Original ==
    (call.fn = "extractInstructions" /\ result # <<>>) =>
        result[1] = Ok(Str(NumberedFromTo(EmittedSteps(call.arg.v, 1), 1)))

\* The text of one recipeIngredient entry: the string itself or the text of
\* the object.
IngredientText(ing) == IF ing.t = "str" THEN ing.v ELSE ing.v.text.v

\* The texts of a from i on, one per line.
RECURSIVE LinesFrom(_, _)
LinesFrom(a, i) ==
    IF i > Len(a) THEN <<>>
    ELSE IngredientText(a[i]) \o (IF i < Len(a) THEN << "\n" >> ELSE <<>>)
         \o LinesFrom(a, i + 1)

\* C22: for a recipeIngredient list whose entries are objects with a text
\* field the ingredients output is the newline-joined sequence of the text
\* values, as it is for a list of plain strings.
C22_Original ==
    (call.fn = "extractIngredients" /\ result # <<>>) =>
        result[1] = Str(LinesFrom(call.arg.v, 1))

\* C24: getSiteName removes "www." only when it is the leading label of the
\* host: a host in which "www." occurs anywhere else is returned unchanged
\* (or as its friendly name).
C24_Original ==
    (call.fn = "getSiteName" /\ result # <<>>) =>
        \A s \in ParseableSites :
            call.arg = s.arg =>
                result[1] = Friendly(IF HasPrefix(s.host, << "w", "w", "w", "." >>)
                                     THEN SubSeq(s.host, 5, Len(s.host))
                                     ELSE s.host)

\* The text s read from left to right with every "&quot;" turned into a
\* double quote and every "&amp;" into an ampersand, each place of the input
\* decoded once.
RECURSIVE Decoded(_)
Decoded(s) ==
    IF s = <<>> THEN <<>>
    ELSE IF HasPrefix(s, << "&","q","u","o","t",";" >>)
         THEN << "\"" >> \o Decoded(SubSeq(s, 7, Len(s)))
    ELSE IF HasPrefix(s, << "&","a","m","p",";" >>)
         THEN << "&" >> \o Decoded(SubSeq(s, 6, Len(s)))
    ELSE << Head(s) >> \o Decoded(Tail(s))

\* The text p occurs in s.
Occurs(p, s) == \E i \in 1..(Len(s) - Len(p) + 1) : SubSeq(s, i, i + Len(p) - 1) = p

HoldsEntity(s) == Occurs(<< "&","q","u","o","t",";" >>, s) \/ Occurs(<< "&","a","m","p",";" >>, s)

\* s holds an entity whose ampersand is itself escaped.
HoldsEscapedEntity(s) == Occurs(<< "&","a","m","p",";","q","u","o","t",";" >>, s) \/ Occurs(<< "&","a","m","p",";","a","m","p",";" >>, s)

\* The first of the texts that is not blank, trimmed; <<>> when all are.
RECURSIVE FirstNonBlank(_)
FirstNonBlank(texts) ==
    IF texts = <<>> THEN <<>>
    ELSE IF Trim(Head(texts)) # <<>> THEN Trim(Head(texts))
    ELSE FirstNonBlank(Tail(texts))

\* The texts of the elements the selectors of doc match, in priority order.
MatchedTexts(doc) ==
    [i \in 1..Len(doc) |-> IF doc[i].present THEN doc[i].text ELSE <<>>]

\* C23: in the HTML extraction the result of a field is the value of the
\* first selector in priority order that yields a non-empty result: a
\* selector that matches an element with empty text does not win and a
\* later selector yielding text is used instead.  Stated for the author
\* field of the generic extractor and for the title the handler extracts.
C23_Original ==
    /\ (call.fn = "extractAuthorFromHTML" /\ result # <<>>) =>
           result[1] = FirstNonBlank(MatchedTexts(call.arg))
    /\ (call.fn = "extractTitle" /\ result # <<>>) =>
           result[1] = Decoded(FirstNonBlank(<< call.arg.title, call.arg.h1 >>))

\* C25 as stated: the title extractTitle returns holds neither "&quot;" nor
\* "&amp;".
C25_Original ==
    (call.fn = "extractTitle" /\ result # <<>>) => ~HoldsEntity(result[1])

\* C25 amended: extractTitle decodes every "&quot;" and "&amp;" of the
\* trimmed title once, so the result holds entity text exactly where the
\* title held an entity whose ampersand was itself escaped ("&amp;quot;",
\* "&amp;amp;"), and none otherwise.
C25_EntitiesDecodedOnce ==
    (call.fn = "extractTitle" /\ result # <<>> /\ call.arg.title # <<>>) =>
        /\ result[1] = Decoded(Trim(call.arg.title))
        /\ HoldsEntity(result[1]) <=> HoldsEscapedEntity(Trim(call.arg.title))

\* C25 witness: the title "&amp;quot;" came back as "&quot;".
C25_Witness ==
    /\ call.fn = "extractTitle"
    /\ call.arg.title = << "&","a","m","p",";","q","u","o","t",";" >>
    /\ result = << << "&","q","u","o","t",";" >> >>

\* C26: in every 200 response of the handler that carries a recipe record,
\* the top-level source of the envelope equals the source field of the
\* record (and is one of the tags the code writes, so the two are not equal
\* merely by both being absent).
C26_EnvelopeSourceIsRecordSource ==
    \A r \in DOMAIN pc :
        CarriesRecipe(r) =>
            /\ response[r].source = response[r].recipe.source
            /\ response[r].source \in { "structured-data", "basic-html", "fallback" }

\* C26 witness: a response built from the page's HTML alone was sent, tagged
\* basic-html in the envelope.
C26_Witness ==
    \E r \in DOMAIN pc :
        /\ CarriesRecipe(r)
        /\ response[r].source = "basic-html"
        /\ response[r].recipe.source = "basic-html"

\* C27: syncGoogleCalendarEvents performs at most one token refresh and at
\* most one retry of the sync after the calendar API answered 401, even if
\* the API keeps answering 401 while every refresh succeeds.
C27_Original == sync.refreshes <= 1 /\ sync.retries <= 1

\* The google rows stored for the family, in the order of insertion.
StoredGoogle == SelectSeq(calendar_events, IsGoogle)

\* Neither the disconnect nor the authorisation callback has acted.
SyncAlone == disconnect.pc = "update" /\ auth.pc = "exchange"

\* C28: a sync never loses previously synced events: if inserting the newly
\* fetched events fails, the family's existing google rows are still stored
\* afterwards, and whenever the sync returns success the stored google rows
\* of the family are exactly the converted events of this run.
C28_Original ==
    SyncAlone =>
        /\ sync.errorCount > 0 => StoredGoogle = << GoogleRow("g0") >>
        /\ (sync.pc = "done" /\ sync.success) => StoredGoogle = sync.familyHubEvents

\* C29: once disconnectGoogleCalendar has completed, no access or refresh
\* token is stored for the family until a later handleGoogleAuthCallback
\* stores new ones, whatever a sync whose token refresh was in flight does.
C29_Original ==
    (disconnect.pc = "done" /\ ~auth.sinceDisconnect) =>
        /\ calendar_sync_settings.google_access_token = null
        /\ calendar_sync_settings.google_refresh_token = null

\* The initial load has finished and no call of the component is pending.
Settled ==
    /\ ~pending.loading
    /\ pending.loads = 0
    /\ ~pending.deleteWeek.active
    /\ ~pending.duplicateWeek.active

NoDuplicates(s) == \A i, j \in DOMAIN s : s[i] = s[j] => i = j

\* C30: after the initial load and after any sequence of addWeek, deleteWeek
\* and duplicateWeek, currentWeek is a member of availableWeeks and
\* availableWeeks is non-empty and holds no week number twice.
C30_Original ==
    Settled =>
        /\ currentWeek \in Range(availableWeeks)
        /\ availableWeeks # <<>>
        /\ NoDuplicates(availableWeeks)

====
